---------------------------- MODULE Spec2Model ----------------------------
(***************************************************************************)
(* A model of crates/backend/src/codegen.rs: the descriptor registry of    *)
(* Descriptor::to_tokens, the run-time behaviour of the code that          *)
(* ast::Struct and ast::StructField generate for an exported struct (the   *)
(* boxed, borrow-guarded handle, its conversions and its field accessors), *)
(* the lowering of an ast::Program (exports, imports, descriptors), and    *)
(* the calls of the generated export shims, synchronous and async.         *)
(***************************************************************************)
EXTENDS Integers, Sequences, FiniteSets, TLC

VARIABLES
    \* ---- generation time: Descriptor::to_tokens (codegen.rs 1494-1537)
    DESCRIPTORS_EMITTED, \* the process-wide HashSet<String> behind the Mutex
    mutex,               \* 0, or the invocation that holds the Mutex
    dpc,                 \* per invocation: its position in Descriptor::to_tokens
    dreq,                \* per invocation: the Descriptor it is emitting
    dfresh,              \* per invocation: what HashSet::insert returned
    dprobe,              \* per invocation: what the lookup inside insert saw
    tokens,              \* the descriptor functions appended to the output
    reqs,                \* per ident: how many emissions were requested
    done,                \* per ident: how many emissions returned, by outcome
    \* ---- run time: the code generated for an exported struct
    heap,                \* address -> WasmRefCell<struct> or Free
    anchors,             \* address -> outstanding Ref / RefMut anchors
    readonly,            \* the fields declared readonly (ast::StructField.readonly)
    pc,                  \* position inside a field accessor, or "idle"
    cur,                 \* the accessor call in progress
    last,                \* the last completed operation and its outcome
    \* ---- the host's object table, for From / TryFrom<JsValue>
    jsHeap,              \* index -> the host object a JsValue in Rust refers to
    \* ---- generation time: TryToTokens for ast::Program (codegen.rs 28-136)
    prog,                \* the ast::Program being lowered
    lpc,                 \* position in Program::try_to_tokens
    lidx,                \* index of the next export / import of the current loop
    out,                 \* the TokenStream of this run
    errors,              \* the Vec<Diagnostic> collected so far
    \* ---- run time: calls of generated export shims
    tasks,               \* the futures of async exports handed to the executor
    lastCall,            \* the call of an export that came to its end in the last step
    calls,               \* how many times a shim has been called
    \* ---- run time: calls of generated import functions
    exn,                 \* the pending host exception (take_last_exception), or "none"
    icall,               \* the last call of an imported function
    \* ---- run time: the conversions generated for an exported enum
    edecl,               \* the ast::Enum: discriminants of the variants, and the hole
    elast,               \* the last conversion applied, and the one before it
    \* ---- the process the generator runs in
    runlog               \* the lowering runs that have ended: result, registry at the end

descVars == <<DESCRIPTORS_EMITTED, mutex, dpc, dreq, dfresh, dprobe, tokens, reqs, done>>
cellVars == <<heap, anchors, readonly, pc, cur, last>>
jsVars   == <<jsHeap>>
lowVars  == <<prog, lpc, lidx, out, errors>>
impVars  == <<exn, icall>>
enumVars == <<edecl, elast>>
procVars == <<runlog>>
shimVars == <<tasks, lastCall, calls, exn, icall, edecl, elast, runlog>>
vars     == <<descVars, cellVars, jsVars, lowVars, shimVars>>

(***************************************************************************)
(* Bounds of the model.                                                    *)
(***************************************************************************)
MaxProcs    == 2   \* concurrent generator invocations
MaxRequests == 3   \* descriptor emissions requested in one process
MaxAddr     == 1   \* addresses the allocator can hand out (1..MaxAddr)
MaxShared   == 2   \* shared anchors kept outstanding on one handle
MaxJs       == 2   \* slots of the host's object table
MaxArgs     == 2   \* arguments of one declared function
MaxDecls    == 2   \* exports, and imports, of one program
MaxTasks    == 2   \* futures of async exports alive at one time
MaxCalls    == 2   \* calls of export shims the host makes
MaxDisc     == 3   \* discriminants and holes of an exported enum are in 0..MaxDisc
MaxRuns     == 2   \* lowering runs in one process

Procs  == 1..MaxProcs
\* idents as the callers build them: an export name, an import shim, a static
\* shim, a field getter
Idents == {"greet", "__wbg_get_point_x"}
\* who asks for the descriptor: Export (724), DescribeImport (1357),
\* ImportStatic (1473), StructField getter (422)
Kinds  == {"export", "import", "static", "getter"}
NoReq  == [ident |-> "", kind |-> ""]

(***************************************************************************)
(* Descriptor::to_tokens                                                   *)
(***************************************************************************)
\* format!("__wbindgen_describe_{}", ident)
DescribeName(ident) == "__wbindgen_describe_" \o ident

RECURSIVE ReqTotal(_)
ReqTotal(S) ==
    IF S = {} THEN 0
    ELSE LET id == CHOOSE x \in S : TRUE IN reqs[id] + ReqTotal(S \ {id})

\* a caller builds a Descriptor and calls to_tokens
DescCall(p) ==
    /\ dpc[p] = "idle"
    /\ ReqTotal(Idents) < MaxRequests
    /\ \E id \in Idents, k \in Kinds :
          /\ dreq' = [dreq EXCEPT ![p] = [ident |-> id, kind |-> k]]
          /\ reqs' = [reqs EXCEPT ![id] = @ + 1]
    /\ dpc' = [dpc EXCEPT ![p] = "lock"]
    /\ UNCHANGED <<DESCRIPTORS_EMITTED, mutex, dfresh, dprobe, tokens, done>>
    /\ UNCHANGED <<cellVars, jsVars, lowVars, shimVars>>

\* DESCRIPTORS_EMITTED.lock().unwrap(): blocks while another holds the Mutex
DescLockMissing(p) ==
    /\ dpc[p] = "lock"
    /\ mutex' = p
    /\ dpc' = [dpc EXCEPT ![p] = "probe"]
    /\ UNCHANGED <<DESCRIPTORS_EMITTED, dreq, dfresh, dprobe, tokens, reqs, done>>
    /\ UNCHANGED <<cellVars, jsVars, lowVars, shimVars>>

DescLock(p) ==
    /\ dpc[p] = "lock"
    /\ mutex = 0
    /\ mutex' = p
    /\ dpc' = [dpc EXCEPT ![p] = "probe"]
    /\ UNCHANGED <<DESCRIPTORS_EMITTED, dreq, dfresh, dprobe, tokens, reqs, done>>
    /\ UNCHANGED <<cellVars, jsVars, lowVars, shimVars>>

\* HashSet::insert, first half: look the string up
DescProbe(p) ==
    /\ dpc[p] = "probe"
    /\ dprobe' = [dprobe EXCEPT ![p] = dreq[p].ident \in DESCRIPTORS_EMITTED]
    /\ dpc' = [dpc EXCEPT ![p] = "write"]
    /\ UNCHANGED <<DESCRIPTORS_EMITTED, mutex, dreq, dfresh, tokens, reqs, done>>
    /\ UNCHANGED <<cellVars, jsVars, lowVars, shimVars>>

\* HashSet::insert, second half: add it when absent; returns whether it was new
DescWrite(p) ==
    /\ dpc[p] = "write"
    /\ DESCRIPTORS_EMITTED' = DESCRIPTORS_EMITTED \cup {dreq[p].ident}
    /\ dfresh' = [dfresh EXCEPT ![p] = ~dprobe[p]]
    /\ dpc' = [dpc EXCEPT ![p] = "unlock"]
    /\ UNCHANGED <<mutex, dreq, dprobe, tokens, reqs, done>>
    /\ UNCHANGED <<cellVars, jsVars, lowVars, shimVars>>

\* a guard that lives on after the condition
DescUnlockKeepsGuard(p) ==
    /\ dpc[p] = "unlock"
    /\ dpc' = [dpc EXCEPT ![p] = "branch"]
    /\ UNCHANGED <<DESCRIPTORS_EMITTED, mutex, dreq, dfresh, dprobe, tokens, reqs, done>>
    /\ UNCHANGED <<cellVars, jsVars, lowVars, shimVars>>

\* the MutexGuard is a temporary of the `if` condition: dropped before the branch
DescUnlock(p) ==
    /\ dpc[p] = "unlock"
    /\ mutex' = IF mutex = p THEN 0 ELSE mutex
    /\ dpc' = [dpc EXCEPT ![p] = "branch"]
    /\ UNCHANGED <<DESCRIPTORS_EMITTED, dreq, dfresh, dprobe, tokens, reqs, done>>
    /\ UNCHANGED <<cellVars, jsVars, lowVars, shimVars>>

\* if !insert(..) { return; }
DescBranchAlways(p) ==
    /\ dpc[p] = "branch"
    /\ dpc' = [dpc EXCEPT ![p] = "emit"]
    /\ UNCHANGED <<DESCRIPTORS_EMITTED, mutex, dreq, dfresh, dprobe, tokens, reqs, done>>
    /\ UNCHANGED <<cellVars, jsVars, lowVars, shimVars>>

DescBranch(p) ==
    /\ dpc[p] = "branch"
    /\ IF dfresh[p]
          THEN /\ dpc' = [dpc EXCEPT ![p] = "emit"]
               /\ UNCHANGED <<dreq, done>>
          ELSE /\ dpc' = [dpc EXCEPT ![p] = "idle"]
               /\ done' = [done EXCEPT ![dreq[p].ident].skip = @ + 1]
               /\ dreq' = [dreq EXCEPT ![p] = NoReq]
    /\ UNCHANGED <<DESCRIPTORS_EMITTED, mutex, dfresh, dprobe, tokens, reqs>>
    /\ UNCHANGED <<cellVars, jsVars, lowVars, shimVars>>

\* quote! { pub extern "C" fn #name() { ... #inner } }.to_tokens(tokens)
DescEmit(p) ==
    /\ dpc[p] = "emit"
    /\ tokens' = Append(tokens, [fn |-> DescribeName(dreq[p].ident), inner |-> dreq[p].kind])
    /\ done' = [done EXCEPT ![dreq[p].ident].emit = @ + 1]
    /\ dreq' = [dreq EXCEPT ![p] = NoReq]
    /\ dpc' = [dpc EXCEPT ![p] = "idle"]
    /\ UNCHANGED <<DESCRIPTORS_EMITTED, mutex, dfresh, dprobe, reqs>>
    /\ UNCHANGED <<cellVars, jsVars, lowVars, shimVars>>

(***************************************************************************)
(* The exported struct: its values, its fields and their ABI conversions.  *)
(***************************************************************************)
Addrs      == 0..MaxAddr
Fields     == {"a", "b"}
\* field a is a u32, field b an exported enum { A = 0, B = 2 }
FieldTy    == [a |-> "u32", b |-> "enum"]
U32Vals    == {0, 7}
Variants   == {"A", "B"}
Disc       == [A |-> 0, B |-> 2]
EnumAbi    == {0, 1, 2}
StructVals == [a : U32Vals, b : Variants]
NoStruct   == [a |-> 0, b |-> "A"]

\* what an operation hands back
RetNone      == [k |-> "none",   s |-> NoStruct, n |-> 0]
RetNum(n)    == [k |-> "num",    s |-> NoStruct, n |-> n]
RetStruct(x) == [k |-> "struct", s |-> x,        n |-> 0]
RetJs(i)     == [k |-> "js",     s |-> NoStruct, n |-> i]

\* ast::Enum: fn into_abi(self) -> u32 { self as u32 }
enum_into_abi(v) == Disc[v]

\* ast::Enum: from_abi is the chain of `if js == Variant as u32 { Variant }`
\* ending in throw_str("invalid enum value passed")
enum_from_abi(js) ==
    IF \E v \in Variants : js = Disc[v]
    THEN [ok |-> TRUE,  v |-> CHOOSE v \in Variants : js = Disc[v]]
    ELSE [ok |-> FALSE, v |-> "A"]

\* <#ty as IntoWasmAbi>::into_abi(val) of the getter
field_into_abi(f, v) == IF FieldTy[f] = "enum" THEN enum_into_abi(v) ELSE v

\* <#abi as WasmAbi>::join(val_1, val_2, val_3, val_4): a u32 occupies slot 1
join(prims) == prims[1]

\* a decoder that maps every discriminant to the first variant
field_from_abi_first_variant(f, abi) ==
    IF FieldTy[f] = "enum" THEN [ok |-> TRUE, v |-> "A"] ELSE [ok |-> TRUE, v |-> abi]

\* <#ty as FromWasmAbi>::from_abi(val) of the setter
field_from_abi(f, abi) ==
    IF FieldTy[f] = "enum" THEN enum_from_abi(abi) ELSE [ok |-> TRUE, v |-> abi]

SetterInputs(f) == IF FieldTy[f] = "enum" THEN EnumAbi ELSE U32Vals

(***************************************************************************)
(* WasmRefCell: the borrow guard of a boxed instance.  0 is Unborrowed,    *)
(* n > 0 is SharedBorrowed(n), ExclusiveBorrowed is its own value.         *)
(***************************************************************************)
Unborrowed        == 0
ExclusiveBorrowed == -1
IsShared(g)       == g > 0

Free       == [live |-> FALSE, val |-> NoStruct, borrow |-> Unborrowed]
Cell(v, g) == [live |-> TRUE,  val |-> v,        borrow |-> g]

\* an outcome: how the call ended, the heap it leaves, the anchor it returns
Out(res, hp, anchor, ret) == [res |-> res, heap |-> hp, anchor |-> anchor, ret |-> ret]
\* a fatal boundary-safety violation: the call is aborted where it stands
Fatal(hp) == Out("fatal", hp, "none", RetNone)
\* a read through a pointer to freed memory: whatever the stale bytes make of it
Dangling(hp, garbage) ==
    {Fatal(hp)} \cup {Out("ub", hp, "none", r) : r \in garbage}

\* __rt::assert_not_null
assert_not_null(js) == js # 0

\* WasmRefCell::borrow: succeeds from Unborrowed or SharedBorrowed
borrow(g) == [ok |-> g # ExclusiveBorrowed, g |-> g + 1]
\* WasmRefCell::borrow_mut: succeeds from Unborrowed only
borrow_mut(g) == [ok |-> g = Unborrowed, g |-> ExclusiveBorrowed]
\* Ref::drop
drop_ref(g) == g - 1
\* RefMut::drop
drop_ref_mut(g) == Unborrowed

WithBorrow(hp, js, g) == [hp EXCEPT ![js].borrow = g]

(***************************************************************************)
(* impl blocks generated by ast::Struct::to_tokens                         *)
(***************************************************************************)
\* Box::into_raw(Box::new(WasmRefCell::new(self))) as u32: a Box is never null
into_abi_any_address(hp, x) ==
    {Out("ok", [hp EXCEPT ![a] = Cell(x, Unborrowed)], "none", RetNum(a)) :
        a \in {b \in Addrs : ~hp[b].live}}

into_abi(hp, x) ==
    {Out("ok", [hp EXCEPT ![a] = Cell(x, Unborrowed)], "none", RetNum(a)) :
        a \in {b \in Addrs : b # 0 /\ ~hp[b].live}}

\* from_abi without `(*js).borrow_mut(); // make sure no one's borrowing`
from_abi_unchecked(hp, js) ==
    IF ~assert_not_null(js) THEN {Fatal(hp)}
    ELSE IF ~hp[js].live THEN Dangling(hp, {RetStruct(x) : x \in StructVals})
    ELSE {Out("ok", [hp EXCEPT ![js] = Free], "none", RetStruct(hp[js].val))}

\* from_abi returning the value and leaving the box allocated
from_abi_leak(hp, js) ==
    IF ~assert_not_null(js) THEN {Fatal(hp)}
    ELSE IF ~hp[js].live THEN Dangling(hp, {RetStruct(x) : x \in StructVals})
    ELSE IF ~borrow_mut(hp[js].borrow).ok THEN {Fatal(hp)}
    ELSE {Out("ok", hp, "none", RetStruct(hp[js].val))}

\* FromWasmAbi::from_abi: assert_not_null, Box::from_raw, borrow_mut, into_inner
from_abi(hp, js) ==
    IF ~assert_not_null(js) THEN {Fatal(hp)}
    ELSE IF ~hp[js].live THEN Dangling(hp, {RetStruct(x) : x \in StructVals})
    ELSE IF ~borrow_mut(hp[js].borrow).ok THEN {Fatal(hp)}
    ELSE {Out("ok", [hp EXCEPT ![js] = Free], "none", RetStruct(hp[js].val))}

\* free_fn: let _ = from_abi(ptr); the value is dropped
free_fn(hp, ptr) == {[o EXCEPT !.ret = RetNone] : o \in from_abi(hp, ptr)}

\* RefFromWasmAbi::ref_from_abi: assert_not_null, (*js).borrow()
ref_from_abi(hp, js) ==
    IF ~assert_not_null(js) THEN {Fatal(hp)}
    ELSE IF ~hp[js].live THEN Dangling(hp, {RetNone})
    ELSE IF ~borrow(hp[js].borrow).ok THEN {Fatal(hp)}
    ELSE {Out("ok", WithBorrow(hp, js, borrow(hp[js].borrow).g), "shared", RetNone)}

\* ref_mut_from_abi taking the anchor whenever the cell is not exclusively
\* borrowed, as borrow() would
ref_mut_from_abi_as_shared(hp, js) ==
    IF ~assert_not_null(js) THEN {Fatal(hp)}
    ELSE IF ~hp[js].live THEN Dangling(hp, {RetNone})
    ELSE IF ~borrow(hp[js].borrow).ok THEN {Fatal(hp)}
    ELSE {Out("ok", WithBorrow(hp, js, ExclusiveBorrowed), "excl", RetNone)}

\* RefMutFromWasmAbi::ref_mut_from_abi: assert_not_null, (*js).borrow_mut()
ref_mut_from_abi(hp, js) ==
    IF ~assert_not_null(js) THEN {Fatal(hp)}
    ELSE IF ~hp[js].live THEN Dangling(hp, {RetNone})
    ELSE IF ~borrow_mut(hp[js].borrow).ok THEN {Fatal(hp)}
    ELSE {Out("ok", WithBorrow(hp, js, borrow_mut(hp[js].borrow).g), "excl", RetNone)}

\* long_ref_from_abi handing out the anchor without touching the guard
long_ref_from_abi_unguarded(hp, js) ==
    IF ~assert_not_null(js) THEN {Fatal(hp)}
    ELSE IF ~hp[js].live THEN Dangling(hp, {RetNone})
    ELSE {Out("ok", hp, "shared", RetNone)}

\* LongRefFromWasmAbi::long_ref_from_abi delegates to ref_from_abi
long_ref_from_abi(hp, js) == ref_from_abi(hp, js)

(***************************************************************************)
(* JsValue conversions.  The host keeps the objects Rust refers to in a    *)
(* table; a JsValue owns one slot, and its destructor frees the slot.      *)
(***************************************************************************)
JsIdx      == 1..MaxJs
JsFree     == [kind |-> "free",    ptr |-> 0]
JsForeign  == [kind |-> "foreign", ptr |-> 0]
JsWrap(p)  == [kind |-> "wrap",    ptr |-> p]

\* the host's new_fn(ptr): wraps the pointer in a class instance, in a fresh slot
new_fn(jh, ptr) == {[idx |-> i, js |-> [jh EXCEPT ![i] = JsWrap(ptr)]] :
                       i \in {j \in JsIdx : jh[j].kind = "free"}}

\* the host's unwrap_fn(idx): an instance of the class gives up its pointer and
\* its slot (the JsValue's destructor has then run); anything else answers 0
\* and is left alone
unwrap_fn(jh, idx) ==
    IF jh[idx].kind = "wrap"
    THEN [ptr |-> jh[idx].ptr, js |-> [jh EXCEPT ![idx] = JsFree], drops |-> 1]
    ELSE [ptr |-> 0, js |-> jh, drops |-> 0]

TryOut(res, ret, hp, jh, drops, ptr) ==
    [res |-> res, ret |-> ret, heap |-> hp, js |-> jh, drops |-> drops, ptr |-> ptr]

\* try_from going on to from_abi whatever unwrap_fn answered
try_from_unchecked(hp, jh, idx) ==
    LET u == unwrap_fn(jh, idx) IN
    {TryOut(o.res, o.ret, o.heap, u.js, u.drops, u.ptr) : o \in from_abi(hp, u.ptr)}

\* TryFrom<JsValue>::try_from(value): idx = into_abi(&value); ptr = unwrap_fn(idx);
\* ptr == 0 => Err(value); else forget(value), Ok(from_abi(ptr))
try_from(hp, jh, idx) ==
    LET u == unwrap_fn(jh, idx) IN
    IF u.ptr = 0
    THEN {TryOut("ok", RetJs(idx), hp, u.js, u.drops, 0)}
    ELSE {TryOut(o.res, o.ret, o.heap, u.js, u.drops, u.ptr) : o \in from_abi(hp, u.ptr)}

\* OptionIntoWasmAbi::none
none == 0
\* OptionFromWasmAbi::is_none
is_none(abi) == abi = 0

(***************************************************************************)
(* The boundary: one call at a time (single-threaded, cooperative).  An    *)
(* anchor outlives the step that took it: it belongs to a shim whose call  *)
(* is suspended in the host, or to a future, and is dropped later.         *)
(***************************************************************************)
NoAnchors == [shared |-> 0, excl |-> 0]
\* the successful setter call that immediately preceded a getter call
NoPrev    == [op |-> "none", h |-> 0, f |-> "a", abi |-> 0, val |-> NoStruct]
NoCall    == [op |-> "none", h |-> 0, f |-> "a", abi |-> 0, val |-> RetNone,
              pre |-> Free, ev |-> <<>>, prev |-> NoPrev]
NoLast    == [op |-> "none", h |-> 0, f |-> "a", res |-> "ok", ret |-> RetNone,
              pre |-> Free, held |-> NoAnchors, arg |-> RetNone, ev |-> <<>>,
              jpre |-> JsFree, drops |-> 0, hpre |-> [a \in Addrs |-> Free],
     prev |-> NoPrev]

Result(op, h, f, o, arg, ev) ==
    [op |-> op, h |-> h, f |-> f, res |-> o.res, ret |-> o.ret,
     pre |-> heap[h], held |-> anchors[h], arg |-> arg, ev |-> ev,
     jpre |-> JsFree, drops |-> 0, hpre |-> [a \in Addrs |-> Free],
     prev |-> NoPrev]

Anchored(h, kind) ==
    IF kind = "shared" THEN [anchors EXCEPT ![h].shared = @ + 1]
    ELSE IF kind = "excl" THEN [anchors EXCEPT ![h].excl = @ + 1]
    ELSE anchors

\* IntoWasmAbi::into_abi(x)
IntoAbi(x) ==
    /\ pc = "idle"
    /\ \E o \in into_abi(heap, x) :
          /\ heap' = o.heap
          /\ last' = Result("into_abi", o.ret.n, "a", o, RetStruct(x), <<>>)
    /\ UNCHANGED <<anchors, readonly, pc, cur>>
    /\ UNCHANGED <<descVars, jsVars, lowVars, shimVars>>

\* FromWasmAbi::from_abi(h)
FromAbi(h) ==
    /\ pc = "idle"
    /\ \E o \in from_abi(heap, h) :
          /\ heap' = o.heap
          /\ last' = Result("from_abi", h, "a", o, RetNum(h), <<>>)
    /\ UNCHANGED <<anchors, readonly, pc, cur>>
    /\ UNCHANGED <<descVars, jsVars, lowVars, shimVars>>

\* the exported free function
FreeFn(h) ==
    /\ pc = "idle"
    /\ \E o \in free_fn(heap, h) :
          /\ heap' = o.heap
          /\ last' = Result("free", h, "a", o, RetNum(h), <<>>)
    /\ UNCHANGED <<anchors, readonly, pc, cur>>
    /\ UNCHANGED <<descVars, jsVars, lowVars, shimVars>>

\* a shim takes a shared anchor on h
RefFromAbi(h) ==
    /\ pc = "idle"
    /\ anchors[h].shared < MaxShared
    /\ \E o \in ref_from_abi(heap, h) :
          /\ heap' = o.heap
          /\ anchors' = Anchored(h, o.anchor)
          /\ last' = Result("ref_from_abi", h, "a", o, RetNum(h), <<>>)
    /\ UNCHANGED <<readonly, pc, cur>>
    /\ UNCHANGED <<descVars, jsVars, lowVars, shimVars>>

\* a shim takes the exclusive anchor on h
RefMutFromAbi(h) ==
    /\ pc = "idle"
    /\ \E o \in ref_mut_from_abi(heap, h) :
          /\ heap' = o.heap
          /\ anchors' = Anchored(h, o.anchor)
          /\ last' = Result("ref_mut_from_abi", h, "a", o, RetNum(h), <<>>)
    /\ UNCHANGED <<readonly, pc, cur>>
    /\ UNCHANGED <<descVars, jsVars, lowVars, shimVars>>

\* an async shim takes a long shared anchor on h
LongRefFromAbi(h) ==
    /\ pc = "idle"
    /\ anchors[h].shared < MaxShared
    /\ \E o \in long_ref_from_abi(heap, h) :
          /\ heap' = o.heap
          /\ anchors' = Anchored(h, o.anchor)
          /\ last' = Result("long_ref_from_abi", h, "a", o, RetNum(h), <<>>)
    /\ UNCHANGED <<readonly, pc, cur>>
    /\ UNCHANGED <<descVars, jsVars, lowVars, shimVars>>

\* a shared anchor goes out of scope: Ref::drop
DropRef(h) ==
    /\ pc = "idle"
    /\ anchors[h].shared > 0
    /\ anchors' = [anchors EXCEPT ![h].shared = @ - 1]
    /\ heap' = IF heap[h].live THEN WithBorrow(heap, h, drop_ref(heap[h].borrow)) ELSE heap
    /\ last' = Result("drop_ref", h, "a", Out("ok", heap, "none", RetNone), RetNum(h), <<>>)
    /\ UNCHANGED <<readonly, pc, cur>>
    /\ UNCHANGED <<descVars, jsVars, lowVars, shimVars>>

\* the exclusive anchor goes out of scope: RefMut::drop
DropRefMut(h) ==
    /\ pc = "idle"
    /\ anchors[h].excl > 0
    /\ anchors' = [anchors EXCEPT ![h].excl = @ - 1]
    /\ heap' = IF heap[h].live THEN WithBorrow(heap, h, drop_ref_mut(heap[h].borrow)) ELSE heap
    /\ last' = Result("drop_ref_mut", h, "a", Out("ok", heap, "none", RetNone), RetNum(h), <<>>)
    /\ UNCHANGED <<readonly, pc, cur>>
    /\ UNCHANGED <<descVars, jsVars, lowVars, shimVars>>

\* Option<T>::into_abi: None => T::none(), Some(x) => x.into_abi()
OptionIntoAbiNone ==
    /\ pc = "idle"
    /\ last' = Result("option_none_into_abi", 0, "a", Out("ok", heap, "none", RetNum(none)),
                      RetNone, <<>>)
    /\ UNCHANGED <<heap, anchors, readonly, pc, cur>>
    /\ UNCHANGED <<descVars, jsVars, lowVars, shimVars>>

OptionIntoAbiSome(x) ==
    /\ pc = "idle"
    /\ \E o \in into_abi(heap, x) :
          /\ heap' = o.heap
          /\ last' = Result("option_some_into_abi", o.ret.n, "a", o, RetStruct(x), <<>>)
    /\ UNCHANGED <<anchors, readonly, pc, cur>>
    /\ UNCHANGED <<descVars, jsVars, lowVars, shimVars>>

\* Option<T>::from_abi: if T::is_none(&js) { None } else { Some(T::from_abi(js)) }
OptionFromAbi(js) ==
    /\ pc = "idle"
    /\ IF is_none(js)
          THEN /\ last' = Result("option_from_abi", js, "a", Out("ok", heap, "none", RetNone),
                                 RetNum(js), <<>>)
               /\ heap' = heap
          ELSE \E o \in from_abi(heap, js) :
                  /\ heap' = o.heap
                  /\ last' = Result("option_from_abi", js, "a", o, RetNum(js), <<>>)
    /\ UNCHANGED <<anchors, readonly, pc, cur>>
    /\ UNCHANGED <<descVars, jsVars, lowVars, shimVars>>

\* From<#name> for JsValue: ptr = into_abi(value); JsValue::from_abi(new_fn(ptr))
IntoJsValue(x) ==
    /\ pc = "idle"
    /\ \E o \in into_abi(heap, x) :
          \E w \in new_fn(jsHeap, o.ret.n) :
              /\ heap' = o.heap
              /\ jsHeap' = w.js
              /\ last' = [Result("into_js", o.ret.n, "a", o, RetStruct(x), <<>>)
                             EXCEPT !.ret = RetJs(w.idx)]
    /\ UNCHANGED <<anchors, readonly, pc, cur, descVars, lowVars, shimVars>>

\* the host hands Rust a JsValue for an object that is no instance of the class
HostForeign ==
    /\ pc = "idle"
    /\ \E i \in JsIdx :
          /\ jsHeap[i].kind = "free"
          /\ jsHeap' = [jsHeap EXCEPT ![i] = JsForeign]
          /\ last' = [NoLast EXCEPT !.op = "host_foreign", !.ret = RetJs(i)]
    /\ UNCHANGED <<heap, anchors, readonly, pc, cur, descVars, lowVars, shimVars>>

\* a JsValue owned by Rust goes out of scope
DropJsValue(i) ==
    /\ pc = "idle"
    /\ jsHeap[i].kind # "free"
    /\ jsHeap' = [jsHeap EXCEPT ![i] = JsFree]
    /\ last' = [NoLast EXCEPT !.op = "drop_js", !.arg = RetJs(i), !.jpre = jsHeap[i],
                              !.drops = 1]
    /\ UNCHANGED <<heap, anchors, readonly, pc, cur, descVars, lowVars, shimVars>>

\* TryFrom<JsValue>::try_from on a JsValue Rust owns
TryFrom(i) ==
    /\ pc = "idle"
    /\ jsHeap[i].kind # "free"
    /\ \E t \in try_from(heap, jsHeap, i) :
          /\ heap' = t.heap
          /\ jsHeap' = t.js
          /\ last' = [NoLast EXCEPT !.op = "try_from", !.h = t.ptr, !.res = t.res,
                                    !.ret = t.ret, !.pre = heap[t.ptr],
                                    !.held = anchors[t.ptr], !.arg = RetJs(i),
                                    !.jpre = jsHeap[i], !.drops = t.drops, !.hpre = heap]
    /\ UNCHANGED <<anchors, readonly, pc, cur, descVars, lowVars, shimVars>>

(***************************************************************************)
(* Field accessors generated by ast::StructField::to_tokens.  A call runs  *)
(* statement by statement; nothing else runs in between.                   *)
(***************************************************************************)
Finish(op, o, ev) ==
    /\ last' = [op |-> op, h |-> cur.h, f |-> cur.f, res |-> o.res, ret |-> o.ret,
                pre |-> cur.pre, held |-> anchors[cur.h], arg |-> RetNum(cur.abi), ev |-> ev,
                jpre |-> JsFree, drops |-> 0, hpre |-> [a \in Addrs |-> Free],
                prev |-> cur.prev]
    /\ pc' = "idle"
    /\ cur' = NoCall

Slot(f, v) == [NoStruct EXCEPT ![f] = v]

\* the temporary Ref of `(*js).borrow().field` kept alive (never dropped)
getter_release_forgotten(hp, js) == hp

\* the temporary Ref is dropped at the end of `let val = ...;`
getter_release(hp, js) == WithBorrow(hp, js, drop_ref(hp[js].borrow))

\* the temporary RefMut kept alive (never dropped)
setter_release_forgotten(hp, js) == hp

\* the temporary RefMut is dropped at the end of the assignment statement
setter_release(hp, js) == WithBorrow(hp, js, drop_ref_mut(hp[js].borrow))

\* pub unsafe extern "C" fn #getter(js: u32): let js = ..; assert_not_null(js);
GetterCall(h, f) ==
    /\ pc = "idle"
    /\ IF assert_not_null(h)
          THEN /\ pc' = "get_borrow"
               /\ cur' = [NoCall EXCEPT !.op = "get", !.h = h, !.f = f, !.pre = heap[h],
                                        !.prev = IF last.op = "set" /\ last.res = "ok"
                                                 THEN [op |-> "set", h |-> last.h, f |-> last.f,
                                                       abi |-> last.arg.n, val |-> last.pre.val]
                                                 ELSE NoPrev]
               /\ last' = NoLast
          ELSE /\ pc' = "idle"
               /\ cur' = NoCall
               /\ last' = [NoLast EXCEPT !.op = "get", !.h = h, !.f = f, !.res = "fatal",
                                         !.pre = heap[h], !.held = anchors[h]]
    /\ UNCHANGED <<heap, anchors, readonly>>
    /\ UNCHANGED <<descVars, jsVars, lowVars, shimVars>>

\* (*js).borrow()
GetterBorrow ==
    /\ pc = "get_borrow"
    /\ IF ~heap[cur.h].live
          THEN /\ \E o \in Dangling(heap, {RetNum(n) : n \in SetterInputs(cur.f)}) :
                     Finish("get", o, cur.ev)
               /\ heap' = heap
          ELSE IF ~borrow(heap[cur.h].borrow).ok
          THEN /\ Finish("get", Fatal(heap), cur.ev)
               /\ heap' = heap
          ELSE /\ heap' = WithBorrow(heap, cur.h, borrow(heap[cur.h].borrow).g)
               /\ cur' = [cur EXCEPT !.ev = Append(@, "acquire")]
               /\ pc' = "get_copy"
               /\ last' = last
    /\ UNCHANGED <<anchors, readonly>>
    /\ UNCHANGED <<descVars, jsVars, lowVars, shimVars>>

\* .#rust_name (a Copy field), or <#ty as Clone>::clone(&..) with getter_with_clone
GetterCopy ==
    /\ pc = "get_copy"
    /\ cur' = [cur EXCEPT !.val = Slot(cur.f, heap[cur.h].val[cur.f]),
                          !.ev = Append(@, "copy")]
    /\ pc' = "get_release"
    /\ UNCHANGED <<heap, anchors, readonly, last>>
    /\ UNCHANGED <<descVars, jsVars, lowVars, shimVars>>

GetterRelease ==
    /\ pc = "get_release"
    /\ heap' = getter_release(heap, cur.h)
    /\ cur' = [cur EXCEPT !.ev = Append(@, "release")]
    /\ pc' = "get_encode"
    /\ UNCHANGED <<anchors, readonly, last>>
    /\ UNCHANGED <<descVars, jsVars, lowVars, shimVars>>

\* <#ty as IntoWasmAbi>::into_abi(val).into()
GetterEncode ==
    /\ pc = "get_encode"
    /\ Finish("get", Out("ok", heap, "none", RetNum(field_into_abi(cur.f, cur.val[cur.f]))),
              Append(cur.ev, "encode"))
    /\ UNCHANGED <<heap, anchors, readonly>>
    /\ UNCHANGED <<descVars, jsVars, lowVars, shimVars>>

\* pub unsafe extern "C" fn #setter(js: u32, val_1..val_4); not generated for a
\* readonly field.  let js = ..; assert_not_null(js);
SetterCall(h, f, abi) ==
    /\ pc = "idle"
    /\ f \notin readonly
    /\ IF assert_not_null(h)
          THEN /\ pc' = "set_decode"
               /\ cur' = [NoCall EXCEPT !.op = "set", !.h = h, !.f = f, !.abi = abi,
                                        !.pre = heap[h]]
               /\ last' = NoLast
          ELSE /\ pc' = "idle"
               /\ cur' = NoCall
               /\ last' = [NoLast EXCEPT !.op = "set", !.h = h, !.f = f, !.res = "fatal",
                                         !.pre = heap[h], !.held = anchors[h],
                                         !.arg = RetNum(abi)]
    /\ UNCHANGED <<heap, anchors, readonly>>
    /\ UNCHANGED <<descVars, jsVars, lowVars, shimVars>>

\* let val = join(val_1, .., val_4); let val = <#ty as FromWasmAbi>::from_abi(val);
SetterDecode ==
    /\ pc = "set_decode"
    /\ LET d == field_from_abi(cur.f, join(<<cur.abi, 0, 0, 0>>)) IN
          IF d.ok
          THEN /\ cur' = [cur EXCEPT !.val = Slot(cur.f, d.v), !.ev = Append(@, "decode")]
               /\ pc' = "set_borrow"
               /\ last' = last
          ELSE Finish("set", Fatal(heap), cur.ev)
    /\ UNCHANGED <<heap, anchors, readonly>>
    /\ UNCHANGED <<descVars, jsVars, lowVars, shimVars>>

\* (*js).borrow_mut()
SetterBorrow ==
    /\ pc = "set_borrow"
    /\ IF ~heap[cur.h].live
          THEN /\ \E o \in Dangling(heap, {RetNone}) : Finish("set", o, cur.ev)
               /\ heap' = heap
          ELSE IF ~borrow_mut(heap[cur.h].borrow).ok
          THEN /\ Finish("set", Fatal(heap), cur.ev)
               /\ heap' = heap
          ELSE /\ heap' = WithBorrow(heap, cur.h, borrow_mut(heap[cur.h].borrow).g)
               /\ cur' = [cur EXCEPT !.ev = Append(@, "acquire")]
               /\ pc' = "set_assign"
               /\ last' = last
    /\ UNCHANGED <<anchors, readonly>>
    /\ UNCHANGED <<descVars, jsVars, lowVars, shimVars>>

\* .#rust_name = val
SetterAssign ==
    /\ pc = "set_assign"
    /\ heap' = [heap EXCEPT ![cur.h].val[cur.f] = cur.val[cur.f]]
    /\ cur' = [cur EXCEPT !.ev = Append(@, "assign")]
    /\ pc' = "set_release"
    /\ UNCHANGED <<anchors, readonly, last>>
    /\ UNCHANGED <<descVars, jsVars, lowVars, shimVars>>

SetterRelease ==
    /\ pc = "set_release"
    /\ heap' = setter_release(heap, cur.h)
    /\ Finish("set", Out("ok", heap, "none", RetNone), Append(cur.ev, "release"))
    /\ UNCHANGED <<anchors, readonly>>
    /\ UNCHANGED <<descVars, jsVars, lowVars, shimVars>>

(***************************************************************************)
(* Declarations (ast::Export, ast::ImportFunction, ast::Program) as the    *)
(* parser hands them over.  A type is written as its Rust text.            *)
(***************************************************************************)
\* syn::Type of an argument or of a return: a primitive, an exported struct
\* by value, a shared reference, an exclusive reference
Types      == {"u32", "Point", "&Point", "&mut Point"}
Unit       == "()"
IsRef(t)   == t \in {"&Point", "&mut Point"}
IsMutRef(t) == t = "&mut Point"
\* TypeReference.elem
Elem(t)    == IF IsRef(t) THEN "Point" ELSE t

RECURSIVE SeqsUpTo(_, _)
SeqsUpTo(S, n) ==
    IF n = 0 THEN {<<>>}
    ELSE LET shorter == SeqsUpTo(S, n - 1) IN
         shorter \cup {Append(q, x) : q \in {r \in shorter : Len(r) = n - 1}, x \in S}

\* ast::MethodSelf, or none for a free function
MethodSelfs == {"None", "ByValue", "RefMutable", "RefShared"}

\* ast::Export: function.arguments (their types), function.ret, function.r#async,
\* start, method_self, export_name()
Exports ==
    [name : {"greet"}, method_self : MethodSelfs, arguments : SeqsUpTo(Types, MaxArgs),
     ret : Types \cup {Unit}, async : BOOLEAN, start : BOOLEAN]

\* the pattern of an imported function's argument (syn::Pat)
Pats == {"ident", "wild", "tuple"}

\* ast::Import whose kind is a Function: function.arguments (pattern and type),
\* js_ret, function.r#async, catch, the shim name, is it a method, and whether
\* its js_namespace names an imported type it fits on; or a Static / Type / Enum
ImportFunctions ==
    [kind : {"Function"}, shim : {"__wbg_get_point_x"},
     arguments : SeqsUpTo([pat : Pats, ty : {"u32"}], MaxArgs),
     js_ret : {"None", "u32", "&Point", "&mut Point"}, async : BOOLEAN, catch : BOOLEAN,
     is_method : BOOLEAN, on_impl : BOOLEAN]
ImportOthers ==
    [kind : {"Static", "Type", "Enum"}, shim : {"__wbg_static_accessor"},
     arguments : {<<>>}, js_ret : {"None"}, async : {FALSE}, catch : {FALSE},
     is_method : {FALSE}, on_impl : {FALSE}]
Imports == ImportFunctions \cup ImportOthers

(***************************************************************************)
(* splat and the lowering of one export (TryToTokens for ast::Export).     *)
(***************************************************************************)
\* for n in 1..=4
SlotCount == 4

RECURSIVE Flatten(_)
Flatten(ss) == IF ss = <<>> THEN <<>> ELSE Head(ss) \o Flatten(Tail(ss))

\* format_ident!("{name}_{n}")
PrimArgName(name, n) == name \o "_" \o ToString(n)

\* a splat that declares only the one slot a 32-bit value needs
splat_packed(name, abi) ==
    [args  |-> <<[name |-> PrimArgName(name, 1),
                  ty |-> "<" \o abi \o " as WasmAbi>::Prim1"]>>,
     names |-> <<PrimArgName(name, 1)>>]

\* fn splat(wasm_bindgen, name, abi) -> (args, names)
splat(name, abi) ==
    [args  |-> [n \in 1..SlotCount |->
                  [name |-> PrimArgName(name, n),
                   ty |-> "<" \o abi \o " as WasmAbi>::Prim" \o ToString(n)]],
     names |-> [n \in 1..SlotCount |-> PrimArgName(name, n)]]

\* inform(X); and <T as WasmDescribe>::describe();
Inform(x)     == [k |-> "inform", v |-> x]
DescribeTy(t) == [k |-> "describe", v |-> t]

\* an argument lowering that never uses the long-borrow anchor
ArgViaNeverLong(ty, async) ==
    IF IsMutRef(ty) THEN "ref_mut_from_abi"
    ELSE IF IsRef(ty) THEN "ref_from_abi"
    ELSE "from_abi"

\* the conversion an argument of type ty is decoded through (527-591)
ArgVia(ty, async) ==
    IF IsMutRef(ty) THEN "ref_mut_from_abi"
    ELSE IF IsRef(ty) THEN (IF async THEN "long_ref_from_abi" ELSE "ref_from_abi")
    ELSE "from_abi"

\* the trait whose Abi is splatted for an argument of type ty
ArgAbi(ty, async) ==
    IF IsMutRef(ty) THEN "<" \o Elem(ty) \o " as RefMutFromWasmAbi>::Abi"
    ELSE IF IsRef(ty) THEN
         (IF async THEN "<" \o Elem(ty) \o " as LongRefFromWasmAbi>::Abi"
                   ELSE "<" \o Elem(ty) \o " as RefFromWasmAbi>::Abi")
    ELSE "<" \o ty \o " as FromWasmAbi>::Abi"

\* let me = ..: the receiver conversion (483-519)
ReceiverConversions(method_self) ==
    CASE method_self = "ByValue" ->
            <<[bind |-> "me", via |-> "from_abi", ty |-> "Point", join |-> <<"me">>]>>
      [] method_self = "RefMutable" ->
            <<[bind |-> "me", via |-> "ref_mut_from_abi", ty |-> "Point", join |-> <<"me">>]>>
      [] method_self = "RefShared" ->
            <<[bind |-> "me", via |-> "ref_from_abi", ty |-> "Point", join |-> <<"me">>]>>
      [] OTHER -> <<>>

\* a describe_args that describes every argument the ordinary way
describe_args_plain(argtys, async) ==
    [i \in 1..Len(argtys) |-> DescribeTy(argtys[i])]

\* describe_args (691-705)
describe_args(argtys, async) ==
    Flatten([i \in 1..Len(argtys) |->
               IF IsRef(argtys[i]) /\ async /\ ~IsMutRef(argtys[i])
               THEN <<Inform("LONGREF"), DescribeTy(Elem(argtys[i]))>>
               ELSE <<DescribeTy(argtys[i])>>])

\* a return lowering that forgets the deferred envelope of an async export
RetLoweringNoEnvelope(e) ==
    IF e.start
    THEN [ret_ty |-> Unit, inner_ret_ty |-> Unit, ret_expr |-> "Start::start(_ret)"]
    ELSE [ret_ty |-> e.ret, inner_ret_ty |-> e.ret, ret_expr |-> "_ret"]

\* (ret_ty, inner_ret_ty, ret_expr) (606-632)
RetLowering(e) ==
    IF e.async
    THEN IF e.start
         THEN [ret_ty |-> Unit, inner_ret_ty |-> Unit, ret_expr |-> "Start::start(_ret.await)"]
         ELSE [ret_ty |-> "JsValue", inner_ret_ty |-> e.ret,
               ret_expr |-> "IntoJsResult::into_js_result(_ret.await)"]
    ELSE IF e.start
         THEN [ret_ty |-> Unit, inner_ret_ty |-> Unit, ret_expr |-> "Start::start(_ret)"]
         ELSE [ret_ty |-> e.ret, inner_ret_ty |-> e.ret, ret_expr |-> "_ret"]

\* a describe_ret that describes the return type once
describe_ret_once(e) == <<DescribeTy(RetLowering(e).ret_ty)>>

\* describe_ret (660-663)
describe_ret(e) ==
    <<DescribeTy(RetLowering(e).ret_ty), DescribeTy(RetLowering(e).inner_ret_ty)>>

NoLowering == [ok |-> TRUE, err |-> "", shim |-> <<>>, desc |-> <<>>]

\* what TryToTokens for ast::Export appends to `into` once the return type is
\* accepted: the shim (673-689) and the Descriptor (724-736)
ExportLowered(e) ==
    LET offset == IF e.method_self # "None" THEN 1 ELSE 0
        n      == Len(e.arguments)
        ident(i) == "arg" \o ToString(i - 1 + offset)
        sp(i)  == splat(ident(i), ArgAbi(e.arguments[i], e.async))
        args   == (IF offset = 1 THEN <<[name |-> "me", ty |-> "u32"]>> ELSE <<>>)
                     \o Flatten([i \in 1..n |-> sp(i).args])
        arg_conversions ==
            ReceiverConversions(e.method_self)
               \o [i \in 1..n |->
                     [bind |-> ident(i), via |-> ArgVia(e.arguments[i], e.async),
                      ty |-> Elem(e.arguments[i]), join |-> sp(i).names]]
        converted_arguments == [i \in 1..n |-> ident(i)]
        r == RetLowering(e)
    IN       [NoLowering EXCEPT
                !.shim = <<[kind |-> "shim", of |-> e.name, args |-> args,
                            arg_conversions |-> arg_conversions,
                            receiver |-> IF offset = 1 THEN "me." \o e.name ELSE e.name,
                            converted_arguments |-> converted_arguments,
                            ret_expr |-> r.ret_expr,
                            wrapper |-> IF ~e.async THEN "none"
                                        ELSE IF e.start THEN "spawn_local"
                                        ELSE "future_to_promise",
                            convert_ret |-> "<" \o r.ret_ty \o " as ReturnWasmAbi>::return_abi(_ret)"]>>,
                !.desc = <<[ident |-> e.name,
                            inner |-> <<Inform("FUNCTION"), Inform("0"), Inform(ToString(n))>>
                                         \o describe_args(e.arguments, e.async)
                                         \o describe_ret(e)]>>]

\* a lowering that accepts a reference as the return type
export_try_to_tokens_ref_allowed(e) == ExportLowered(e)

\* TryToTokens for ast::Export: bails out on a reference return type (594-601)
\* before anything is appended
export_try_to_tokens(e) ==
    IF IsRef(e.ret)
    THEN [NoLowering EXCEPT !.ok = FALSE,
                            !.err = "cannot return a borrowed ref with #[wasm_bindgen]"]
    ELSE ExportLowered(e)

(***************************************************************************)
(* The lowering of one import (TryToTokens for ast::ImportKind /           *)
(* ast::ImportFunction) and its descriptor (DescribeImport).               *)
(***************************************************************************)
\* the name an argument pattern binds (1150-1162); "" when unsupported
ImportArgName(arg, i) ==
    CASE arg.pat = "ident" -> "a" \o ToString(i - 1)
      [] arg.pat = "wild"  -> "__genarg_" \o ToString(i - 1)
      [] OTHER             -> ""

\* index of the first argument with an unsupported pattern, 0 when none
FirstBadPat(arguments) ==
    LET bad == {i \in 1..Len(arguments) : ImportArgName(arguments[i], i) = ""}
    IN  IF bad = {} THEN 0 ELSE CHOOSE i \in bad : \A j \in bad : i <= j

\* an import that never looks for a pending exception
exceptional_ret_none(f) == ""

\* exceptional_ret (1239-1245): only a synchronous catch import takes the
\* pending exception
exceptional_ret(f) == IF f.catch /\ ~f.async THEN "take_last_exception()?" ELSE ""

\* convert_ret (1181-1244)
import_convert_ret(f) ==
    IF f.async
    THEN IF f.js_ret = "None"
         THEN (IF f.catch THEN "future?; Ok(())" ELSE "future.expect;")
         ELSE (IF f.catch THEN "Ok(future?)" ELSE "future.expect")
    ELSE IF f.js_ret = "None"
         THEN (IF f.catch THEN "Ok(())" ELSE "()")
         ELSE (IF f.catch THEN "Ok(from_abi(_ret.join()))" ELSE "from_abi(_ret.join())")

\* TryToTokens for ast::ImportFunction
import_function_try_to_tokens(f) ==
    LET n == Len(f.arguments)
        name(i) == ImportArgName(f.arguments[i], i)
        sp(i) == splat(name(i), "<" \o f.arguments[i].ty \o " as IntoWasmAbi>::Abi")
    IN  IF FirstBadPat(f.arguments) # 0
        THEN [NoLowering EXCEPT !.ok = FALSE,
                !.err = "unsupported pattern in #[wasm_bindgen] imported function"]
        ELSE IF IsRef(f.js_ret)
        THEN [NoLowering EXCEPT !.ok = FALSE,
                !.err = "cannot return references in #[wasm_bindgen] imports yet"]
        ELSE [NoLowering EXCEPT
                !.shim = <<[kind |-> "import", of |-> f.shim,
                            args |-> Flatten([i \in 1..n |-> sp(i).args]),
                            arg_conversions |->
                                [i \in 1..n |->
                                   [bind |-> name(i), via |-> "into_abi",
                                    ty |-> f.arguments[i].ty, join |-> sp(i).names]],
                            receiver |-> f.shim,
                            converted_arguments |-> Flatten([i \in 1..n |-> sp(i).names]),
                            ret_expr |-> exceptional_ret(f),
                            wrapper |-> IF f.async THEN "JsFuture" ELSE "none",
                            convert_ret |-> import_convert_ret(f)]>>]

\* TryToTokens for ast::ImportKind (742-753); an ImportStatic also emits the
\* descriptor of its type (1473-1481)
import_try_to_tokens(i) ==
    IF i.kind = "Function" THEN import_function_try_to_tokens(i)
    ELSE [NoLowering EXCEPT
            !.shim = <<[kind |-> i.kind, of |-> i.shim, args |-> <<>>,
                        arg_conversions |-> <<>>, receiver |-> "",
                        converted_arguments |-> <<>>, ret_expr |-> "", wrapper |-> "none",
                        convert_ret |-> ""]>>,
            !.desc = IF i.kind = "Static"
                     THEN <<[ident |-> i.shim, inner |-> <<DescribeTy("JsValue")>>]>>
                     ELSE <<>>]

\* DescribeImport::to_tokens: the Descriptor of an imported function
DescribeImport(i) ==
    IF i.kind # "Function" THEN <<>>
    ELSE LET inform_ret ==
                 IF i.js_ret # "None" THEN DescribeTy(i.js_ret)
                 ELSE IF i.async THEN DescribeTy("JsValue")
                 ELSE DescribeTy(Unit)
         IN  <<[ident |-> i.shim,
                inner |-> <<Inform("FUNCTION"), Inform("0"), Inform(ToString(Len(i.arguments)))>>
                             \o [k \in 1..Len(i.arguments) |-> DescribeTy(i.arguments[k].ty)]
                             \o <<inform_ret, inform_ret>>]>>

\* Descriptor::to_tokens run to completion by the one thread of this pass:
\* insert the ident, return when it was there, else append the function
RECURSIVE Describe(_, _, _)
Describe(reg, toks, descs) ==
    IF descs = <<>> THEN [reg |-> reg, out |-> toks]
    ELSE LET d == Head(descs) IN
         IF d.ident \in reg
         THEN Describe(reg, toks, Tail(descs))
         ELSE Describe(reg \cup {d.ident},
                       Append(toks, [kind |-> "descriptor", of |-> d.ident,
                                     fn |-> DescribeName(d.ident), inner |-> d.inner]),
                       Tail(descs))

(***************************************************************************)
(* TryToTokens for ast::Program: one pass over the declaration list.       *)
(***************************************************************************)
NoProgram == [exports |-> <<>>, structs |-> 0, imports |-> <<>>, enums |-> 0]

\* declarations the multi-declaration programs are built from
ExportPool ==
    {[name |-> "greet", method_self |-> "None", arguments |-> <<"u32">>, ret |-> "u32",
      async |-> FALSE, start |-> FALSE],
     [name |-> "view", method_self |-> "RefShared", arguments |-> <<>>, ret |-> "&Point",
      async |-> FALSE, start |-> FALSE],
     [name |-> "load", method_self |-> "None", arguments |-> <<"&Point">>, ret |-> "u32",
      async |-> TRUE, start |-> FALSE]}
ImportPool ==
    {[kind |-> "Function", shim |-> "__wbg_get_point_x",
      arguments |-> <<[pat |-> "ident", ty |-> "u32"]>>, js_ret |-> "u32",
      async |-> FALSE, catch |-> FALSE, is_method |-> FALSE, on_impl |-> FALSE],
     [kind |-> "Function", shim |-> "__wbg_first",
      arguments |-> <<>>, js_ret |-> "&Point",
      async |-> FALSE, catch |-> FALSE, is_method |-> FALSE, on_impl |-> FALSE],
     [kind |-> "Function", shim |-> "__wbg_pair",
      arguments |-> <<[pat |-> "tuple", ty |-> "u32"]>>, js_ret |-> "None",
      async |-> FALSE, catch |-> TRUE, is_method |-> TRUE, on_impl |-> TRUE]}

\* one declaration of any shape, or up to MaxDecls exports and imports
Programs ==
    {[NoProgram EXCEPT !.exports = <<e>>] : e \in Exports}
       \cup {[NoProgram EXCEPT !.imports = <<i>>] : i \in Imports}
       \cup [exports : SeqsUpTo(ExportPool, MaxDecls), structs : 0..1,
             imports : SeqsUpTo(ImportPool, MaxDecls), enums : 0..1]

Error(loop, idx, msg) == [loop |-> loop, idx |-> idx, msg |-> msg]
Plain(kind, n) == [i \in 1..n |-> [kind |-> kind, of |-> ToString(i)]]

\* the metadata static (86-133).  A byte string is a sequence of 0..255.
\* r#"{{"schema_version":"{}","version":"{}"}}"#
PrefixOpen  == <<123, 34, 115, 99, 104, 101, 109, 97, 95, 118, 101, 114, 115, 105, 111, 110, 34, 58, 34>>
PrefixMid   == <<34, 44, 34, 118, 101, 114, 115, 105, 111, 110, 34, 58, 34>>
PrefixClose == <<34, 125>>
\* shared::SCHEMA_VERSION and shared::version(): "0.2.74", and a version with
\* build information long enough for a header of 256 bytes and more
SchemaVersions == {<<48, 46, 50, 46, 55, 52>>}
ToolVersions   == {<<48, 46, 50, 46, 55, 52>>, [i \in 1..220 |-> 97]}
\* encode::encode(self)?.custom_section: opaque bytes
CustomSections == {<<>>, <<1, 0, 255>>}

prefix_json(sv, tv) == PrefixOpen \o sv \o PrefixMid \o tv \o PrefixClose

\* the length written most significant byte first
to_be_bytes(n) ==
    <<(n \div 16777216) % 256, (n \div 65536) % 256, (n \div 256) % 256, n % 256>>

\* u32::to_le_bytes
to_le_bytes(n) ==
    <<n % 256, (n \div 256) % 256, (n \div 65536) % 256, (n \div 16777216) % 256>>

\* [&len.to_le_bytes()[..], prefix_json.as_bytes(), &encoded.custom_section].concat()
\* and the two statics of the final quote!
GeneratedStatic(sv, tv, encoded) ==
    LET pj    == prefix_json(sv, tv)
        len   == Len(pj)   \* as u32: a header is far shorter than 2^32 bytes
        bytes == to_le_bytes(len) \o pj \o encoded
    IN  <<[kind |-> "included_files", of |-> "_INCLUDED_FILES"],
          [kind |-> "blob", of |-> "_GENERATED", bytes |-> bytes, length |-> Len(bytes),
           prefix_json |-> pj, custom_section |-> encoded]>>

\* a pass that gives up at the first export that fails
LowerExportFailFast ==
    /\ lpc = "exports"
    /\ lidx <= Len(prog.exports)
    /\ LET r == export_try_to_tokens(prog.exports[lidx])
           d == Describe(DESCRIPTORS_EMITTED, out \o r.shim, r.desc)
       IN  IF r.ok
           THEN /\ out' = d.out
                /\ DESCRIPTORS_EMITTED' = d.reg
                /\ errors' = errors
                /\ lpc' = lpc
           ELSE /\ errors' = Append(errors, Error("export", lidx, r.err))
                /\ lpc' = "err"
                /\ UNCHANGED <<out, DESCRIPTORS_EMITTED>>
    /\ lidx' = lidx + 1
    /\ UNCHANGED <<prog>>
    /\ UNCHANGED <<mutex, dpc, dreq, dfresh, dprobe, tokens, reqs, done>>
    /\ UNCHANGED <<cellVars, jsVars, shimVars>>

\* for export in self.exports.iter(): one iteration
LowerExport ==
    /\ lpc = "exports"
    /\ lidx <= Len(prog.exports)
    /\ LET r == export_try_to_tokens(prog.exports[lidx])
           d == Describe(DESCRIPTORS_EMITTED, out \o r.shim, r.desc)
       IN  /\ out' = d.out
           /\ DESCRIPTORS_EMITTED' = d.reg
           /\ errors' = IF r.ok THEN errors
                                ELSE Append(errors, Error("export", lidx, r.err))
    /\ lidx' = lidx + 1
    /\ UNCHANGED <<prog, lpc>>
    /\ UNCHANGED <<mutex, dpc, dreq, dfresh, dprobe, tokens, reqs, done>>
    /\ UNCHANGED <<cellVars, jsVars, shimVars>>

\* for s in self.structs.iter() { s.to_tokens(tokens) }, then the map of the
\* imported types
LowerStructs ==
    /\ lpc = "exports"
    /\ lidx > Len(prog.exports)
    /\ out' = out \o Plain("struct", prog.structs)
    /\ lpc' = "imports"
    /\ lidx' = 1
    /\ UNCHANGED <<prog, errors>>
    /\ UNCHANGED <<descVars, cellVars, jsVars, shimVars>>

\* for i in self.imports.iter(): one iteration.  The descriptor is emitted
\* first; an import that fits on the impl of an imported type is lowered
\* through try_to_token_stream and wrapped in `impl #ns { .. }`
LowerImport ==
    /\ lpc = "imports"
    /\ lidx <= Len(prog.imports)
    /\ LET i  == prog.imports[lidx]
           d0 == Describe(DESCRIPTORS_EMITTED, out, DescribeImport(i))
           r  == import_try_to_tokens(i)
           items == IF i.on_impl
                    THEN [k \in 1..Len(r.shim) |-> [r.shim[k] EXCEPT !.kind = "impl"]]
                    ELSE r.shim
           d1 == Describe(d0.reg, d0.out \o items, r.desc)
       IN  /\ out' = d1.out
           /\ DESCRIPTORS_EMITTED' = d1.reg
           /\ errors' = IF r.ok THEN errors
                                ELSE Append(errors, Error("import", lidx, r.err))
    /\ lidx' = lidx + 1
    /\ UNCHANGED <<prog, lpc>>
    /\ UNCHANGED <<mutex, dpc, dreq, dfresh, dprobe, tokens, reqs, done>>
    /\ UNCHANGED <<cellVars, jsVars, shimVars>>

\* a finish that appends the statics without looking at the errors
LowerFinishIgnoringErrors ==
    /\ lpc = "imports"
    /\ lidx > Len(prog.imports)
    /\ \E sv \in SchemaVersions, tv \in ToolVersions, cs \in CustomSections :
          out' = out \o Plain("enum", prog.enums) \o GeneratedStatic(sv, tv, cs)
    /\ lpc' = IF errors # <<>> THEN "err" ELSE "ok"
    /\ errors' = errors
    /\ UNCHANGED <<prog, lidx>>
    /\ UNCHANGED <<descVars, cellVars, jsVars, shimVars>>

\* for e in self.enums.iter() { e.to_tokens(tokens) }; Diagnostic::from_vec(errors)?;
\* encode::encode(self)?; the _GENERATED static.  encode can fail on its own.
LowerFinish ==
    /\ lpc = "imports"
    /\ lidx > Len(prog.imports)
    /\ IF errors # <<>>
       THEN /\ out' = out \o Plain("enum", prog.enums)
            /\ lpc' = "err"
            /\ errors' = errors
       ELSE \E encoded \in BOOLEAN :
               IF encoded
               THEN /\ \E sv \in SchemaVersions, tv \in ToolVersions, cs \in CustomSections :
                         out' = out \o Plain("enum", prog.enums) \o GeneratedStatic(sv, tv, cs)
                    /\ lpc' = "ok"
                    /\ errors' = errors
               ELSE /\ out' = out \o Plain("enum", prog.enums)
                    /\ lpc' = "err"
                    /\ errors' = <<Error("encode", 0, "encode")>>
    /\ UNCHANGED <<prog, lidx>>
    /\ UNCHANGED <<descVars, cellVars, jsVars, shimVars>>

\* the programs one process lowers one after the other: one item each, as
\* the macro is expanded once for every annotated item
ProcessPrograms ==
    [exports : SeqsUpTo(ExportPool, 1), structs : 0..1,
     imports : SeqsUpTo(ImportPool, 1), enums : {0}]

\* a next run that starts with an empty registry
LowerAgainFreshRegistry ==
    /\ lpc \in {"ok", "err"}
    /\ Len(runlog) < MaxRuns - 1
    /\ runlog' = Append(runlog, [res |-> lpc, reg |-> DESCRIPTORS_EMITTED])
    /\ prog' \in ProcessPrograms
    /\ lpc' = "exports"
    /\ lidx' = 1
    /\ out' = <<>>
    /\ errors' = <<>>
    /\ DESCRIPTORS_EMITTED' = {}
    /\ UNCHANGED <<mutex, dpc, dreq, dfresh, dprobe, tokens, reqs, done>>
    /\ UNCHANGED <<cellVars, jsVars, tasks, lastCall, calls, impVars, enumVars>>

\* the macro is expanded again in the same process: a new program, a new
\* token stream, the same `static DESCRIPTORS_EMITTED` (1504)
LowerAgain ==
    /\ lpc \in {"ok", "err"}
    /\ Len(runlog) < MaxRuns - 1
    /\ runlog' = Append(runlog, [res |-> lpc, reg |-> DESCRIPTORS_EMITTED])
    /\ prog' \in ProcessPrograms
    /\ lpc' = "exports"
    /\ lidx' = 1
    /\ out' = <<>>
    /\ errors' = <<>>
    /\ UNCHANGED <<descVars, cellVars, jsVars, tasks, lastCall, calls, impVars, enumVars>>

(***************************************************************************)
(* Calls of the generated export shims (the function emitted at 673-689).  *)
(* A synchronous shim runs to its return in one piece.  The shim of an     *)
(* async export only builds the future, hands it to the executor and       *)
(* returns; the body of the future runs later, one poll at a time.  The    *)
(* implementation behind the shim does not call back across the boundary.  *)
(***************************************************************************)
TaskIds == 1..MaxTasks

NoGuards == [a \in Addrs |-> Unborrowed]
NoExport ==
    [name |-> "", method_self |-> "None", arguments |-> <<>>, ret |-> Unit,
     async |-> FALSE, start |-> FALSE]
NoTask ==
    [st |-> "none", export |-> NoExport, async |-> FALSE, conv |-> <<>>, held |-> <<>>, ev |-> <<>>,
     pre |-> NoGuards, post |-> NoGuards, touched |-> {}, ret_expr |-> "", wrapper |-> ""]

\* the guards of the handles a call was given
Guards(hp, convs) ==
    [a \in Addrs |->
        IF \E i \in 1..Len(convs) : convs[i].ty = "Point" /\ convs[i].h = a
        THEN hp[a].borrow ELSE Unborrowed]

\* the exports whose shims are called
ShimPool ==
    {[name |-> "greet", method_self |-> "RefShared", arguments |-> <<"&Point", "u32">>,
      ret |-> "u32", async |-> FALSE, start |-> FALSE],
     [name |-> "greet", method_self |-> "RefShared", arguments |-> <<"u32">>,
      ret |-> "u32", async |-> TRUE, start |-> FALSE],
     [name |-> "greet", method_self |-> "RefMutable", arguments |-> <<>>,
      ret |-> "u32", async |-> TRUE, start |-> FALSE],
     [name |-> "greet", method_self |-> "ByValue", arguments |-> <<>>,
      ret |-> "u32", async |-> TRUE, start |-> FALSE]}
    \cup
    {[name |-> "main", method_self |-> "None", arguments |-> <<>>, ret |-> Unit,
      async |-> as, start |-> TRUE] : as \in BOOLEAN}

\* the struct value the host has instances of
ShimVal == CHOOSE x \in StructVals : TRUE

\* the handles the host passes: one per conversion of a Point (a handle it
\* received or still remembers, never null), 0 elsewhere
HandleChoices(convs) ==
    {hs \in [1..Len(convs) -> Addrs] :
        \A i \in 1..Len(convs) : (convs[i].ty = "Point") = (hs[i] # 0)}

Bound(convs, hs) ==
    [i \in 1..Len(convs) |->
        [bind |-> convs[i].bind, via |-> convs[i].via, ty |-> convs[i].ty, h |-> hs[i]]]

\* one arg_conversions statement executed on the heap
ConvOutcomes(hp, c) ==
    IF c.ty # "Point" THEN {Out("ok", hp, "none", RetNum(0))}
    ELSE CASE c.via = "from_abi"          -> from_abi(hp, c.h)
           [] c.via = "ref_from_abi"      -> ref_from_abi(hp, c.h)
           [] c.via = "ref_mut_from_abi"  -> ref_mut_from_abi(hp, c.h)
           [] c.via = "long_ref_from_abi" -> long_ref_from_abi(hp, c.h)

\* #(#arg_conversions)*: the statements in order; the first one that fails
\* aborts the call, and what was borrowed before stays borrowed
RECURSIVE RunConversions(_, _, _, _)
RunConversions(hp, convs, held, ev) ==
    IF convs = <<>> THEN {[res |-> "ok", heap |-> hp, held |-> held, ev |-> ev]}
    ELSE LET c == Head(convs) IN
         UNION {IF o.res = "ok"
                THEN RunConversions(o.heap, Tail(convs),
                                    IF o.anchor = "none" THEN held
                                    ELSE Append(held, [h |-> c.h, kind |-> o.anchor]),
                                    Append(ev, "decode " \o c.bind))
                ELSE {[res |-> o.res, heap |-> o.heap, held |-> held, ev |-> ev]}
                  : o \in ConvOutcomes(hp, c)}

\* a block whose anchors are never dropped
ReleaseNone(hp, held) == hp

\* the locals of the block go out of scope: every anchor is dropped
RECURSIVE ReleaseAll(_, _)
ReleaseAll(hp, held) ==
    IF held = <<>> THEN hp
    ELSE LET a == Head(held) IN
         ReleaseAll(WithBorrow(hp, a.h, IF a.kind = "excl" THEN drop_ref_mut(hp[a.h].borrow)
                                        ELSE drop_ref(hp[a.h].borrow)),
                    Tail(held))

\* anchors of an aborted call: never dropped
RECURSIVE Leaked(_, _)
Leaked(anch, held) ==
    IF held = <<>> THEN anch
    ELSE Leaked([anch EXCEPT ![Head(held).h][Head(held).kind] = @ + 1], Tail(held))

\* the shared borrows the conversions would add on handle h
SharedAdded(convs, h) ==
    Cardinality({i \in 1..Len(convs) :
                    /\ convs[i].ty = "Point" /\ convs[i].h = h
                    /\ convs[i].via \in {"ref_from_abi", "long_ref_from_abi"}})

\* the model keeps the shared count of a guard within MaxShared
WithinShared(convs) ==
    \A h \in Addrs : heap[h].borrow + SharedAdded(convs, h) <= MaxShared

\* a step of call c0 (0: a synchronous call) takes the heap to hp2: every other
\* future still alive notes the handles whose guard the step changed
Touch(ts, c0, hp2) ==
    [c \in TaskIds |->
        IF c # c0 /\ ts[c].st \in {"scheduled", "suspended"}
        THEN [ts[c] EXCEPT !.touched = @ \cup
                 {a \in Addrs : /\ hp2[a].borrow # heap[a].borrow
                                /\ \E i \in 1..Len(ts[c].conv) :
                                      ts[c].conv[i].ty = "Point" /\ ts[c].conv[i].h = a}]
        ELSE ts[c]]

\* a block that evaluates ret_expr before it calls the implementation
AfterConversionsWrapFirst(ev, sh) ==
    IF sh.ret_expr = "_ret" THEN Append(ev, "invoke")
    ELSE Append(Append(ev, "wrap"), "invoke")

\* let _ret = #receiver(#(#converted_arguments),*); #ret_expr
AfterConversions(ev, sh) ==
    IF sh.ret_expr = "_ret" THEN Append(ev, "invoke")
    ELSE Append(Append(ev, "invoke"), "wrap")

\* the host calls the shim of a synchronous export: conversions, call of the
\* implementation, ret_expr, end of the block (the anchors are dropped),
\* return_abi
ShimCallSync(e, hs) ==
    /\ ~e.async
    /\ calls < MaxCalls
    /\ pc = "idle"
    /\ LET sh    == ExportLowered(e).shim[1]
           convs == Bound(sh.arg_conversions, hs)
       IN  /\ hs \in HandleChoices(sh.arg_conversions)
           /\ WithinShared(convs)
           /\ \E o \in RunConversions(heap, convs, <<>>, <<>>) :
                 IF o.res = "ok"
                 THEN /\ heap' = ReleaseAll(o.heap, o.held)
                      /\ anchors' = anchors
                      /\ lastCall' = [NoTask EXCEPT
                             !.st = "returned", !.export = e, !.conv = convs,
                             !.ev = Append(AfterConversions(o.ev, sh), "encode"),
                             !.pre = Guards(heap, convs),
                             !.post = Guards(ReleaseAll(o.heap, o.held), convs),
                             !.ret_expr = sh.ret_expr, !.wrapper = sh.wrapper]
                      /\ tasks' = Touch(tasks, 0, ReleaseAll(o.heap, o.held))
                 ELSE /\ heap' = o.heap
                      /\ anchors' = Leaked(anchors, o.held)
                      /\ lastCall' = [NoTask EXCEPT
                             !.st = o.res, !.export = e, !.conv = convs, !.ev = o.ev,
                             !.pre = Guards(heap, convs), !.post = Guards(o.heap, convs),
                             !.ret_expr = sh.ret_expr, !.wrapper = sh.wrapper]
                      /\ tasks' = Touch(tasks, 0, o.heap)
    /\ calls' = calls + 1
    /\ UNCHANGED <<readonly, pc, cur, last>>
    /\ UNCHANGED <<descVars, jsVars, lowVars, impVars, enumVars, procVars>>

\* a shim that runs the conversions itself and moves the results into the
\* future
ShimCallAsyncEager(c, e, hs) ==
    /\ e.async
    /\ calls < MaxCalls
    /\ pc = "idle"
    /\ tasks[c].st = "none"
    /\ \A d \in TaskIds : d < c => tasks[d].st # "none"
    /\ LET sh    == ExportLowered(e).shim[1]
           convs == Bound(sh.arg_conversions, hs)
       IN  /\ hs \in HandleChoices(sh.arg_conversions)
           /\ WithinShared(convs)
           /\ \E o \in RunConversions(heap, convs, <<>>, <<>>) :
                 /\ o.res = "ok"
                 /\ heap' = o.heap
                 /\ tasks' = [tasks EXCEPT ![c] =
                                [NoTask EXCEPT !.st = "scheduled", !.export = e, !.async = TRUE,
                                               !.conv = convs, !.held = o.held,
                                               !.ev = <<"spawn", "encode">>,
                                               !.pre = Guards(heap, convs),
                                               !.post = Guards(o.heap, convs),
                                               !.ret_expr = sh.ret_expr, !.wrapper = sh.wrapper]]
    /\ lastCall' = NoTask
    /\ calls' = calls + 1
    /\ UNCHANGED <<anchors, readonly, pc, cur, last>>
    /\ UNCHANGED <<descVars, jsVars, lowVars, impVars, enumVars, procVars>>

\* the host calls the shim of an async export: the primitives are moved into
\* the future, future_to_promise / spawn_local hands it to the executor, and
\* the shim returns (the promise, or nothing for the start function)
ShimCallAsync(c, e, hs) ==
    /\ e.async
    /\ calls < MaxCalls
    /\ pc = "idle"
    /\ tasks[c].st = "none"
    /\ \A d \in TaskIds : d < c => tasks[d].st # "none"
    /\ LET sh    == ExportLowered(e).shim[1]
           convs == Bound(sh.arg_conversions, hs)
       IN  /\ hs \in HandleChoices(sh.arg_conversions)
           /\ tasks' = [tasks EXCEPT ![c] =
                          [NoTask EXCEPT !.st = "scheduled", !.export = e, !.async = TRUE,
                                         !.conv = convs,
                                         !.ev = <<"spawn", "encode">>,
                                         !.pre = Guards(heap, convs), !.post = Guards(heap, convs),
                                         !.ret_expr = sh.ret_expr, !.wrapper = sh.wrapper]]
    /\ lastCall' = NoTask
    /\ calls' = calls + 1
    /\ UNCHANGED <<heap, anchors, readonly, pc, cur, last>>
    /\ UNCHANGED <<descVars, jsVars, lowVars, impVars, enumVars, procVars>>

\* the body of a future whose anchors are not locals of its block: they
\* stay behind when the future is suspended
TaskStartAnchorsOutside(c) ==
    /\ tasks[c].st = "scheduled"
    /\ pc = "idle"
    /\ WithinShared(tasks[c].conv)
    /\ \E o \in RunConversions(heap, tasks[c].conv, <<>>, tasks[c].ev) :
          /\ o.res = "ok"
          /\ heap' = o.heap
          /\ anchors' = Leaked(anchors, o.held)
          /\ tasks' = Touch([tasks EXCEPT ![c].st = "suspended",
                                          ![c].ev = Append(o.ev, "invoke")], c, o.heap)
          /\ lastCall' = NoTask
    /\ UNCHANGED <<readonly, pc, cur, last, calls>>
    /\ UNCHANGED <<descVars, jsVars, lowVars, impVars, enumVars, procVars>>

\* first poll of the future: the conversions, the call of the implementation,
\* then `_ret.await`, which is ready at once or suspends the task
TaskStart(c) ==
    /\ tasks[c].st = "scheduled"
    /\ pc = "idle"
    /\ WithinShared(tasks[c].conv)
    /\ \E o \in RunConversions(heap, tasks[c].conv, <<>>, tasks[c].ev) :
          IF o.res # "ok"
          THEN /\ heap' = o.heap
               /\ anchors' = Leaked(anchors, o.held)
               /\ tasks' = Touch([tasks EXCEPT ![c] = NoTask], c, o.heap)
               /\ lastCall' = [tasks[c] EXCEPT !.st = o.res, !.ev = o.ev,
                                               !.post = Guards(o.heap, tasks[c].conv)]
          ELSE \E ready \in BOOLEAN :
                 IF ready
                 THEN /\ heap' = ReleaseAll(o.heap, o.held)
                      /\ anchors' = anchors
                      /\ tasks' = Touch([tasks EXCEPT ![c] = NoTask], c,
                                        ReleaseAll(o.heap, o.held))
                      /\ lastCall' = [tasks[c] EXCEPT
                             !.st = "done",
                             !.ev = Append(Append(o.ev, "invoke"), "wrap"),
                             !.post = Guards(ReleaseAll(o.heap, o.held), tasks[c].conv)]
                 ELSE /\ heap' = o.heap
                      /\ anchors' = anchors
                      /\ tasks' = Touch([tasks EXCEPT
                             ![c].st = "suspended", ![c].held = o.held,
                             ![c].ev = Append(o.ev, "invoke")], c, o.heap)
                      /\ lastCall' = NoTask
    /\ UNCHANGED <<readonly, pc, cur, last, calls>>
    /\ UNCHANGED <<descVars, jsVars, lowVars, impVars, enumVars, procVars>>

\* a later poll finds `_ret.await` ready: ret_expr, end of the block
TaskResume(c) ==
    /\ tasks[c].st = "suspended"
    /\ pc = "idle"
    /\ heap' = ReleaseAll(heap, tasks[c].held)
    /\ tasks' = Touch([tasks EXCEPT ![c] = NoTask], c, ReleaseAll(heap, tasks[c].held))
    /\ lastCall' = [tasks[c] EXCEPT !.st = "done", !.held = <<>>,
                                    !.ev = Append(@, "wrap"),
                                    !.post = Guards(ReleaseAll(heap, tasks[c].held), tasks[c].conv)]
    /\ UNCHANGED <<anchors, readonly, pc, cur, last, calls>>
    /\ UNCHANGED <<descVars, jsVars, lowVars, impVars, enumVars, procVars>>

\* the host drops the deferred result before the body has completed: the
\* future is dropped and with it the locals of its block
TaskCancel(c) ==
    /\ tasks[c].st \in {"scheduled", "suspended"}
    /\ tasks[c].wrapper = "future_to_promise"
    /\ pc = "idle"
    /\ heap' = ReleaseAll(heap, tasks[c].held)
    /\ tasks' = Touch([tasks EXCEPT ![c] = NoTask], c, ReleaseAll(heap, tasks[c].held))
    /\ lastCall' = [tasks[c] EXCEPT !.st = "cancelled", !.held = <<>>,
                                    !.post = Guards(ReleaseAll(heap, tasks[c].held), tasks[c].conv)]
    /\ UNCHANGED <<anchors, readonly, pc, cur, last, calls>>
    /\ UNCHANGED <<descVars, jsVars, lowVars, impVars, enumVars, procVars>>

(***************************************************************************)
(* Calls of the generated import functions (the fn emitted at 1297-1316).  *)
(* The host function returns or throws.  The glue around the host function *)
(* of a catch import keeps a thrown exception as the pending exception and *)
(* returns to the caller; a throw through any other import unwinds the     *)
(* call path.  An async import returns a promise that resolves or rejects. *)
(***************************************************************************)
HostVals == {1, 2}
ExnVals  == {"TypeError", "RangeError"}

NoResult == [k |-> "none", v |-> 0, x |-> "none"]
Ok(v)    == [k |-> "Ok", v |-> v, x |-> "none"]
Err(x)   == [k |-> "Err", v |-> 0, x |-> x]
Value(v) == [k |-> "value", v |-> v, x |-> "none"]
Abort    == [k |-> "fatal", v |-> 0, x |-> "none"]

\* what the host function does: return v, throw x, or (async) return a
\* promise that resolves with v or rejects with x
HostOutcomes(f) ==
    {[k |-> "return", v |-> v, x |-> "none"] : v \in HostVals}
       \cup {[k |-> "throw", v |-> 0, x |-> x] : x \in ExnVals}
       \cup (IF f.async THEN {[k |-> "reject", v |-> 0, x |-> x] : x \in ExnVals} ELSE {})

\* the imported functions that are called
ImportCallPool ==
    [kind : {"Function"}, shim : {"__wbg_get_point_x"},
     arguments : {<<[pat |-> "ident", ty |-> "u32"]>>},
     js_ret : {"None", "u32"}, async : BOOLEAN, catch : BOOLEAN,
     is_method : {FALSE}, on_impl : {FALSE}]

NoICall == [st |-> "none", catch |-> FALSE, async |-> FALSE, js_ret |-> "None",
            host |-> [k |-> "none", v |-> 0, x |-> "none"], pending |-> "none",
            ev |-> <<>>, res |-> NoResult]

\* #convert_ret on what the host call left in _ret; after a caught throw
\* _ret holds no value of the return type
ConvertRet(sh, h) ==
    LET garbage == h.k = "throw" IN
    CASE sh.convert_ret = "()" -> {[res |-> Value(0), ev |-> <<>>]}
      [] sh.convert_ret = "Ok(())" -> {[res |-> Ok(0), ev |-> <<>>]}
      [] sh.convert_ret = "from_abi(_ret.join())" ->
            {[res |-> Value(v), ev |-> <<"decode">>] :
                v \in IF garbage THEN HostVals ELSE {h.v}}
      [] sh.convert_ret = "Ok(from_abi(_ret.join()))" ->
            {[res |-> Ok(v), ev |-> <<"decode">>] :
                v \in IF garbage THEN HostVals ELSE {h.v}}
      [] sh.convert_ret \in {"Ok(future?)", "future?; Ok(())"} ->
            LET unit == sh.convert_ret = "future?; Ok(())" IN
            IF garbage
            THEN {[res |-> r, ev |-> <<"decode">>] :
                     r \in {Abort} \cup {Ok(IF unit THEN 0 ELSE v) : v \in HostVals}
                              \cup {Err(x) : x \in ExnVals}}
            ELSE IF h.k = "reject" THEN {[res |-> Err(h.x), ev |-> <<"decode">>]}
            ELSE {[res |-> Ok(IF unit THEN 0 ELSE h.v), ev |-> <<"decode">>]}
      [] OTHER ->  \* future.expect("unexpected exception")
            LET unit == sh.convert_ret = "future.expect;" IN
            IF garbage
            THEN {[res |-> r, ev |-> <<"decode">>] :
                     r \in {Abort} \cup {Value(IF unit THEN 0 ELSE v) : v \in HostVals}}
            ELSE IF h.k = "reject" THEN {[res |-> Abort, ev |-> <<"decode">>]}
            ELSE {[res |-> Value(IF unit THEN 0 ELSE h.v), ev |-> <<"decode">>]}

\* let _ret = { arg_conversions; import(..) }; #exceptional_ret #convert_ret
ImportRun(f, sh, h, pend) ==
    IF h.k = "throw" /\ ~f.catch
    THEN {[res |-> Abort, exn |-> pend, ev |-> <<"call">>]}
    ELSE LET pend1 == IF h.k = "throw" THEN h.x ELSE pend IN
         IF sh.ret_expr = "take_last_exception()?"
         THEN IF pend1 # "none"
              THEN {[res |-> Err(pend1), exn |-> "none",
                     ev |-> <<"call", "take_last_exception">>]}
              ELSE {[res |-> c.res, exn |-> pend1,
                     ev |-> <<"call", "take_last_exception">> \o c.ev] :
                        c \in ConvertRet(sh, h)}
         ELSE {[res |-> c.res, exn |-> pend1, ev |-> <<"call">> \o c.ev] :
                  c \in ConvertRet(sh, h)}

\* a call of the imported function f
ImportCall(f, h) ==
    /\ calls < MaxCalls
    /\ h \in HostOutcomes(f)
    /\ LET r == import_function_try_to_tokens(f) IN
       /\ r.ok
       /\ \E o \in ImportRun(f, r.shim[1], h, exn) :
             /\ exn' = o.exn
             /\ icall' = [st |-> "ended", catch |-> f.catch, async |-> f.async,
                          js_ret |-> f.js_ret, host |-> h, pending |-> exn,
                          ev |-> o.ev, res |-> o.res]
    /\ calls' = calls + 1
    /\ UNCHANGED <<tasks, lastCall>>
    /\ UNCHANGED <<descVars, cellVars, jsVars, lowVars, enumVars, procVars>>

(***************************************************************************)
(* The conversions generated for an exported enum (ast::Enum, 1374-1420).  *)
(* The declaration gives each variant its own discriminant, and a hole     *)
(* that is the discriminant of no variant.                                 *)
(***************************************************************************)
DiscVals == 0..MaxDisc
\* values of the ABI type u32 that are tried: the small ones, one past the
\* declared range, and a large one
U32Sample == DiscVals \cup {MaxDisc + 1, 2147483647}

EnumDecls ==
    {d \in [disc : [Variants -> DiscVals], hole : DiscVals] :
        /\ \A v, w \in Variants : v # w => d.disc[v] # d.disc[w]
        /\ \A v \in Variants : d.disc[v] # d.hole}

\* the enum of the struct field b
FieldEnum == [disc |-> Disc, hole |-> 1]

\* an argument or a result of a conversion: a variant, a number, a flag
EnumVal(v)  == [ok |-> TRUE, v |-> v, n |-> 0, b |-> FALSE]
EnumNum(n)  == [ok |-> TRUE, v |-> "", n |-> n, b |-> FALSE]
EnumFlag(b) == [ok |-> TRUE, v |-> "", n |-> 0, b |-> b]
EnumFatal   == [ok |-> FALSE, v |-> "", n |-> 0, b |-> FALSE]
NoEnumStep  == [op |-> "idle", arg |-> EnumNum(0), res |-> EnumNum(0)]
NoEnumOp    == [op |-> "idle", arg |-> EnumNum(0), res |-> EnumNum(0), prev |-> NoEnumStep]

\* IntoWasmAbi::into_abi: self as u32
into_abi_of(d, v) == d.disc[v]

\* a decoder that falls back to a variant instead of throwing
from_abi_of_lenient(d, js) ==
    IF \E v \in Variants : js = d.disc[v]
    THEN EnumVal(CHOOSE v \in Variants : js = d.disc[v])
    ELSE EnumVal(CHOOSE v \in Variants : TRUE)

\* FromWasmAbi::from_abi: #(#cast_clauses else)* { throw_str(..) }
from_abi_of(d, js) ==
    IF \E v \in Variants : js = d.disc[v]
    THEN EnumVal(CHOOSE v \in Variants : js = d.disc[v])
    ELSE EnumFatal

\* OptionFromWasmAbi::is_none: *val == #hole
is_none_of(d, val) == val = d.hole

\* a none() that is always 0
none_zero(d) == 0

\* OptionIntoWasmAbi::none: #hole
none_of(d) == d.hole

EnumStep(op, arg, res) ==
    [op |-> op, arg |-> arg, res |-> res,
     prev |-> [op |-> elast.op, arg |-> elast.arg, res |-> elast.res]]

EnumIntoAbi(v) ==
    /\ elast' = EnumStep("into_abi", EnumVal(v), EnumNum(into_abi_of(edecl, v)))
    /\ UNCHANGED <<edecl, tasks, lastCall, calls, impVars, procVars>>
    /\ UNCHANGED <<descVars, cellVars, jsVars, lowVars>>

EnumFromAbi(js) ==
    /\ elast' = EnumStep("from_abi", EnumNum(js), from_abi_of(edecl, js))
    /\ UNCHANGED <<edecl, tasks, lastCall, calls, impVars, procVars>>
    /\ UNCHANGED <<descVars, cellVars, jsVars, lowVars>>

EnumNone ==
    /\ elast' = EnumStep("none", EnumNum(0), EnumNum(none_of(edecl)))
    /\ UNCHANGED <<edecl, tasks, lastCall, calls, impVars, procVars>>
    /\ UNCHANGED <<descVars, cellVars, jsVars, lowVars>>

EnumIsNone(val) ==
    /\ elast' = EnumStep("is_none", EnumNum(val), EnumFlag(is_none_of(edecl, val)))
    /\ UNCHANGED <<edecl, tasks, lastCall, calls, impVars, procVars>>
    /\ UNCHANGED <<descVars, cellVars, jsVars, lowVars>>

\* the shims are called on a module that has handed out some exported
\* structs (into_abi) and has none of them borrowed
ShimInit ==
    /\ DESCRIPTORS_EMITTED = {}
    /\ mutex = 0
    /\ dpc = [p \in Procs |-> "idle"]
    /\ dreq = [p \in Procs |-> NoReq]
    /\ dfresh = [p \in Procs |-> FALSE]
    /\ dprobe = [p \in Procs |-> FALSE]
    /\ tokens = <<>>
    /\ reqs = [id \in Idents |-> 0]
    /\ done = [id \in Idents |-> [emit |-> 0, skip |-> 0]]
    /\ heap \in [Addrs -> {Free, Cell(ShimVal, Unborrowed)}]
    /\ ~heap[0].live
    /\ anchors = [a \in Addrs |-> NoAnchors]
    /\ readonly = {}
    /\ pc = "idle"
    /\ cur = NoCall
    /\ last = NoLast
    /\ jsHeap = [i \in JsIdx |-> JsFree]
    /\ prog = NoProgram
    /\ lpc = "idle"
    /\ lidx = 1
    /\ out = <<>>
    /\ errors = <<>>
    /\ tasks = [c \in TaskIds |-> NoTask]
    /\ lastCall = NoTask
    /\ calls = 0
    /\ exn = "none"
    /\ icall = NoICall
    /\ edecl = FieldEnum
    /\ elast = NoEnumOp
    /\ runlog = <<>>

ShimNext ==
    \/ \E e \in ShimPool : \E hs \in [1..Len(ExportLowered(e).shim[1].arg_conversions) -> Addrs] :
          ShimCallSync(e, hs)
    \/ \E c \in TaskIds, e \in ShimPool :
          \E hs \in [1..Len(ExportLowered(e).shim[1].arg_conversions) -> Addrs] :
             ShimCallAsync(c, e, hs)
    \/ \E c \in TaskIds : TaskStart(c)
    \/ \E c \in TaskIds : TaskResume(c)
    \/ \E c \in TaskIds : TaskCancel(c)

SpecShim == ShimInit /\ [][ShimNext]_vars

\* an exported enum is declared, nothing converted yet
EnumInit ==
    /\ DESCRIPTORS_EMITTED = {}
    /\ mutex = 0
    /\ dpc = [p \in Procs |-> "idle"]
    /\ dreq = [p \in Procs |-> NoReq]
    /\ dfresh = [p \in Procs |-> FALSE]
    /\ dprobe = [p \in Procs |-> FALSE]
    /\ tokens = <<>>
    /\ reqs = [id \in Idents |-> 0]
    /\ done = [id \in Idents |-> [emit |-> 0, skip |-> 0]]
    /\ heap = [a \in Addrs |-> Free]
    /\ anchors = [a \in Addrs |-> NoAnchors]
    /\ readonly = {}
    /\ pc = "idle"
    /\ cur = NoCall
    /\ last = NoLast
    /\ jsHeap = [i \in JsIdx |-> JsFree]
    /\ prog = NoProgram
    /\ lpc = "idle"
    /\ lidx = 1
    /\ out = <<>>
    /\ errors = <<>>
    /\ tasks = [c \in TaskIds |-> NoTask]
    /\ lastCall = NoTask
    /\ calls = 0
    /\ exn = "none"
    /\ icall = NoICall
    /\ edecl \in EnumDecls
    /\ elast = NoEnumOp
    /\ runlog = <<>>

EnumNext ==
    \/ \E v \in Variants : EnumIntoAbi(v)
    \/ \E js \in U32Sample \cup {elast.res.n} : EnumFromAbi(js)
    \/ EnumNone
    \/ \E val \in U32Sample \cup {elast.res.n} : EnumIsNone(val)

SpecEnum == EnumInit /\ [][EnumNext]_vars

ImportNext ==
    \/ \E f \in ImportCallPool : \E h \in HostOutcomes(f) : ImportCall(f, h)

SpecImport == ShimInit /\ [][ImportNext]_vars

(***************************************************************************)
(* Specifications                                                          *)

(***************************************************************************)
DescInit ==
    /\ DESCRIPTORS_EMITTED = {}
    /\ mutex = 0
    /\ dpc = [p \in Procs |-> "idle"]
    /\ dreq = [p \in Procs |-> NoReq]
    /\ dfresh = [p \in Procs |-> FALSE]
    /\ dprobe = [p \in Procs |-> FALSE]
    /\ tokens = <<>>
    /\ reqs = [id \in Idents |-> 0]
    /\ done = [id \in Idents |-> [emit |-> 0, skip |-> 0]]
    /\ heap = [a \in Addrs |-> Free]
    /\ anchors = [a \in Addrs |-> NoAnchors]
    /\ readonly = {}
    /\ pc = "idle"
    /\ cur = NoCall
    /\ last = NoLast
    /\ jsHeap = [i \in JsIdx |-> JsFree]
    /\ prog = NoProgram
    /\ lpc = "idle"
    /\ lidx = 1
    /\ out = <<>>
    /\ errors = <<>>
    /\ tasks = [c \in TaskIds |-> NoTask]
    /\ lastCall = NoTask
    /\ calls = 0
    /\ exn = "none"
    /\ icall = NoICall
    /\ edecl = FieldEnum
    /\ elast = NoEnumOp
    /\ runlog = <<>>

DescNext ==
    \E p \in Procs :
        \/ DescCall(p)
        \/ DescLock(p)
        \/ DescProbe(p)
        \/ DescWrite(p)
        \/ DescUnlock(p)
        \/ DescBranch(p)
        \/ DescEmit(p)

\* a struct is declared (its readonly fields are fixed), nothing is allocated yet
CellInit ==
    /\ DESCRIPTORS_EMITTED = {}
    /\ mutex = 0
    /\ dpc = [p \in Procs |-> "idle"]
    /\ dreq = [p \in Procs |-> NoReq]
    /\ dfresh = [p \in Procs |-> FALSE]
    /\ dprobe = [p \in Procs |-> FALSE]
    /\ tokens = <<>>
    /\ reqs = [id \in Idents |-> 0]
    /\ done = [id \in Idents |-> [emit |-> 0, skip |-> 0]]
    /\ heap = [a \in Addrs |-> Free]
    /\ anchors = [a \in Addrs |-> NoAnchors]
    /\ readonly \in {{}, {"b"}}
    /\ pc = "idle"
    /\ cur = NoCall
    /\ last = NoLast
    /\ jsHeap = [i \in JsIdx |-> JsFree]
    /\ prog = NoProgram
    /\ lpc = "idle"
    /\ lidx = 1
    /\ out = <<>>
    /\ errors = <<>>
    /\ tasks = [c \in TaskIds |-> NoTask]
    /\ lastCall = NoTask
    /\ calls = 0
    /\ exn = "none"
    /\ icall = NoICall
    /\ edecl = FieldEnum
    /\ elast = NoEnumOp
    /\ runlog = <<>>

CellNext ==
    \/ \E x \in StructVals : IntoAbi(x)
    \/ \E h \in Addrs : FromAbi(h)
    \/ \E h \in Addrs : FreeFn(h)
    \/ \E h \in Addrs : RefFromAbi(h)
    \/ \E h \in Addrs : RefMutFromAbi(h)
    \/ \E h \in Addrs : LongRefFromAbi(h)
    \/ \E h \in Addrs : DropRef(h)
    \/ \E h \in Addrs : DropRefMut(h)
    \/ OptionIntoAbiNone
    \/ \E x \in StructVals : OptionIntoAbiSome(x)
    \/ \E h \in Addrs : OptionFromAbi(h)
    \/ \E h \in Addrs, f \in Fields : GetterCall(h, f)
    \/ GetterBorrow
    \/ GetterCopy
    \/ GetterRelease
    \/ GetterEncode
    \/ \E h \in Addrs, f \in Fields : \E abi \in SetterInputs(f) : SetterCall(h, f, abi)
    \/ SetterDecode
    \/ SetterBorrow
    \/ SetterAssign
    \/ SetterRelease

\* the host and Rust exchanging instances of the struct as JsValues
UnwrapNext ==
    \/ \E x \in StructVals : IntoJsValue(x)
    \/ HostForeign
    \/ \E i \in JsIdx : DropJsValue(i)
    \/ \E i \in JsIdx : TryFrom(i)
    \/ \E h \in Addrs : RefFromAbi(h)
    \/ \E h \in Addrs : RefMutFromAbi(h)
    \/ \E h \in Addrs : DropRef(h)
    \/ \E h \in Addrs : DropRefMut(h)

\* concurrent generator invocations sharing the descriptor registry
SpecDesc == DescInit /\ [][DescNext]_vars

\* one step of an invocation that has been called: nothing in to_tokens
\* waits for anything but the Mutex, so a scheduled thread goes on
DescStep(p) ==
    \/ DescLock(p)
    \/ DescProbe(p)
    \/ DescWrite(p)
    \/ DescUnlock(p)
    \/ DescBranch(p)
    \/ DescEmit(p)

\* a call from the lowering of an export (724); what the body will hold
\* has no part in the locking
DescCallExport(p) == DescCall(p) /\ dreq'[p].kind = "export"

DescFairNext ==
    \E p \in Procs :
        \/ DescCallExport(p)
        \/ DescLock(p)
        \/ DescProbe(p)
        \/ DescWrite(p)
        \/ DescUnlock(p)
        \/ DescBranch(p)
        \/ DescEmit(p)

\* invocations under a scheduler that lets every thread run
SpecDescFair ==
    DescInit /\ [][DescFairNext]_vars /\ \A p \in Procs : WF_vars(DescStep(p))

\* the host driving the generated code of one exported struct
SpecCell == CellInit /\ [][CellNext]_vars

SpecUnwrap == DescInit /\ [][UnwrapNext]_vars

\* a program handed to TryToTokens for ast::Program in a fresh process
LowerInit ==
    /\ DESCRIPTORS_EMITTED = {}
    /\ mutex = 0
    /\ dpc = [p \in Procs |-> "idle"]
    /\ dreq = [p \in Procs |-> NoReq]
    /\ dfresh = [p \in Procs |-> FALSE]
    /\ dprobe = [p \in Procs |-> FALSE]
    /\ tokens = <<>>
    /\ reqs = [id \in Idents |-> 0]
    /\ done = [id \in Idents |-> [emit |-> 0, skip |-> 0]]
    /\ heap = [a \in Addrs |-> Free]
    /\ anchors = [a \in Addrs |-> NoAnchors]
    /\ readonly = {}
    /\ pc = "idle"
    /\ cur = NoCall
    /\ last = NoLast
    /\ jsHeap = [i \in JsIdx |-> JsFree]
    /\ prog \in Programs
    /\ lpc = "exports"
    /\ lidx = 1
    /\ out = <<>>
    /\ errors = <<>>
    /\ tasks = [c \in TaskIds |-> NoTask]
    /\ lastCall = NoTask
    /\ calls = 0
    /\ exn = "none"
    /\ icall = NoICall
    /\ edecl = FieldEnum
    /\ elast = NoEnumOp
    /\ runlog = <<>>

LowerNext ==
    \/ LowerExport
    \/ LowerStructs
    \/ LowerImport
    \/ LowerFinish

SpecLower == LowerInit /\ [][LowerNext]_vars

\* one process expanding the macro several times
ProcessInit ==
    /\ DESCRIPTORS_EMITTED = {}
    /\ mutex = 0
    /\ dpc = [p \in Procs |-> "idle"]
    /\ dreq = [p \in Procs |-> NoReq]
    /\ dfresh = [p \in Procs |-> FALSE]
    /\ dprobe = [p \in Procs |-> FALSE]
    /\ tokens = <<>>
    /\ reqs = [id \in Idents |-> 0]
    /\ done = [id \in Idents |-> [emit |-> 0, skip |-> 0]]
    /\ heap = [a \in Addrs |-> Free]
    /\ anchors = [a \in Addrs |-> NoAnchors]
    /\ readonly = {}
    /\ pc = "idle"
    /\ cur = NoCall
    /\ last = NoLast
    /\ jsHeap = [i \in JsIdx |-> JsFree]
    /\ prog \in ProcessPrograms
    /\ lpc = "exports"
    /\ lidx = 1
    /\ out = <<>>
    /\ errors = <<>>
    /\ tasks = [c \in TaskIds |-> NoTask]
    /\ lastCall = NoTask
    /\ calls = 0
    /\ exn = "none"
    /\ icall = NoICall
    /\ edecl = FieldEnum
    /\ elast = NoEnumOp
    /\ runlog = <<>>

ProcessNext ==
    \/ LowerExport
    \/ LowerStructs
    \/ LowerImport
    \/ LowerFinish
    \/ LowerAgain

SpecProcess == ProcessInit /\ [][ProcessNext]_vars

(***************************************************************************)
(* Properties of the descriptor registry (checked under SpecDesc)          *)
(***************************************************************************)
Quiescent == \A p \in Procs : dpc[p] = "idle"

BodiesFor(id) == Cardinality({i \in 1..Len(tokens) : tokens[i].fn = DescribeName(id)})

\* C1: for every symbol name at most one descriptor function body is emitted;
\* once every requested emission has returned, a name has exactly one body if
\* it was requested at least once and none otherwise; no two emitted
\* functions share a __wbindgen_describe_<name>.
C1_OneBodyPerSymbol ==
    /\ \A id \in Idents : BodiesFor(id) <= 1
    /\ \A i, j \in 1..Len(tokens) : i # j => tokens[i].fn # tokens[j].fn
    /\ Quiescent =>
          \A id \in Idents : BodiesFor(id) = (IF reqs[id] > 0 THEN 1 ELSE 0)

\* a name requested three times, all requests returned, one body
C1_Witness ==
    /\ Quiescent
    /\ \E id \in Idents : reqs[id] = 3 /\ BodiesFor(id) = 1 /\ done[id].skip = 2

InCritical(p) == dpc[p] \in {"probe", "write", "unlock"}

\* the invocations whose insert of id returned true
Winners(id) ==
    done[id].emit
    + Cardinality({p \in Procs : /\ dpc[p] \in {"unlock", "branch", "emit"}
                                 /\ dreq[p].ident = id
                                 /\ dfresh[p]})

\* C2: the lookup and the insert of one invocation happen under the lock with
\* no other invocation's lookup or insert in between, so for every name at most
\* one invocation ever sees insert return true, and once all have returned
\* exactly one has emitted the body and every other has emitted nothing.
C2_AtomicCheckInsert ==
    /\ \A p \in Procs : InCritical(p) => mutex = p
    /\ \A p, q \in Procs : (p # q /\ InCritical(p)) => ~InCritical(q)
    /\ \A p \in Procs :
          dpc[p] = "write" => (dprobe[p] <=> dreq[p].ident \in DESCRIPTORS_EMITTED)
    /\ \A id \in Idents : Winners(id) <= 1
    /\ Quiescent =>
          \A id \in Idents :
              reqs[id] > 0 => done[id].emit = 1 /\ done[id].skip = reqs[id] - 1

\* two invocations in flight for the same name: one about to emit, the other
\* about to return empty-handed
C2_Witness ==
    \E p, q \in Procs :
        /\ p # q
        /\ dreq[p].ident = dreq[q].ident
        /\ dpc[p] = "emit" /\ dfresh[p]
        /\ dpc[q] = "branch" /\ ~dfresh[q]

(***************************************************************************)
(* Properties of the generated handle code (checked under SpecCell)        *)
(***************************************************************************)
Borrowed(held) == held.shared > 0 \/ held.excl > 0

\* C3: ref_mut_from_abi on a handle with a shared or an exclusive anchor
\* outstanding is fatal (and changes nothing); ref_from_abi and
\* long_ref_from_abi on a handle with one or more shared anchors outstanding
\* succeed and add one.
C3_BorrowRules ==
    /\ (last.op = "ref_mut_from_abi" /\ Borrowed(last.held)) =>
          /\ last.res = "fatal"
          /\ heap[last.h] = last.pre
          /\ anchors[last.h] = last.held
    /\ (last.op \in {"ref_from_abi", "long_ref_from_abi"} /\ last.held.shared >= 1) =>
          /\ last.res = "ok"
          /\ anchors[last.h].shared = last.held.shared + 1
          /\ heap[last.h].borrow = last.pre.borrow + 1

\* an exclusive borrow refused while two shared anchors are outstanding (the
\* second of which was granted while the first was held)
C3_Witness ==
    /\ last.op = "ref_mut_from_abi"
    /\ last.held.shared = 2
    /\ last.res = "fatal"

\* the anchors outstanding on h, the accessor's temporary included
SharedOut(h) ==
    anchors[h].shared + (IF pc \in {"get_copy", "get_release"} /\ cur.h = h THEN 1 ELSE 0)
ExclOut(h) ==
    anchors[h].excl + (IF pc \in {"set_assign", "set_release"} /\ cur.h = h THEN 1 ELSE 0)

\* C4: the guard of every handle matches its outstanding anchors: Unborrowed
\* iff none, SharedBorrowed(n) iff n shared and no exclusive, ExclusiveBorrowed
\* iff one exclusive and no shared; shared and exclusive anchors never coexist;
\* no anchor outlives its allocation; dropping the last anchor leaves
\* Unborrowed.
C4_GuardMatchesAnchors ==
    /\ \A h \in Addrs :
          /\ ~(SharedOut(h) > 0 /\ ExclOut(h) > 0)
          /\ ExclOut(h) <= 1
          /\ heap[h].live =>
                heap[h].borrow = (IF ExclOut(h) = 1 THEN ExclusiveBorrowed ELSE SharedOut(h))
          /\ ~heap[h].live => (SharedOut(h) = 0 /\ ExclOut(h) = 0)
    /\ (last.op \in {"drop_ref", "drop_ref_mut"} /\ ~Borrowed(anchors[last.h])) =>
          heap[last.h].borrow = Unborrowed

\* the last of two shared anchors was just dropped
C4_Witness ==
    /\ last.op = "drop_ref"
    /\ last.held.shared = 1
    /\ last.pre.borrow = 1
    /\ anchors[last.h] = NoAnchors
    /\ heap[last.h].live /\ heap[last.h].borrow = Unborrowed

\* C5: from_abi and the free function are fatal on handle 0 and fatal while a
\* shared or exclusive borrow is outstanding (the allocation stays as it was);
\* they move the value out only of a non-null, live, Unborrowed handle.
C5_ReclaimRules ==
    last.op \in {"from_abi", "free"} =>
        /\ last.h = 0 => last.res = "fatal"
        /\ (last.pre.live /\ (Borrowed(last.held) \/ last.pre.borrow # Unborrowed)) =>
              (last.res = "fatal" /\ heap[last.h] = last.pre)
        /\ last.res = "ok" =>
              /\ last.h # 0
              /\ last.pre.live
              /\ last.pre.borrow = Unborrowed
              /\ ~Borrowed(last.held)
              /\ ~heap[last.h].live
              /\ last.op = "from_abi" => last.ret = RetStruct(last.pre.val)

\* free refused on a live handle with a shared anchor outstanding
C5_Witness ==
    /\ last.op = "free"
    /\ last.res = "fatal"
    /\ last.held.shared > 0
    /\ heap[last.h].live

AnyUse(hp, h) ==
    from_abi(hp, h) \cup free_fn(hp, h) \cup ref_from_abi(hp, h)
        \cup ref_mut_from_abi(hp, h) \cup long_ref_from_abi(hp, h)

\* C6: right after into_abi(x) returned h, from_abi(h) succeeds, returns x and
\* frees h; and right after a successful from_abi(h), h is not a live
\* allocation: every borrow, reclaim or free through h is fatal or a read of
\* freed memory, and none of them brings an allocation back.
C6_RoundTrip ==
    /\ last.op = "into_abi" =>
          \A o \in from_abi(heap, last.h) :
              o.res = "ok" /\ o.ret = last.arg /\ ~o.heap[last.h].live
    /\ (last.op = "from_abi" /\ last.res = "ok") =>
          /\ last.ret = RetStruct(last.pre.val)
          /\ ~heap[last.h].live
          /\ \A o \in AnyUse(heap, last.h) :
                o.res \in {"fatal", "ub"} /\ o.heap = heap /\ o.anchor = "none"

\* a value other than the default was reclaimed and its handle is dead
C6_Witness ==
    /\ last.op = "from_abi"
    /\ last.res = "ok"
    /\ last.ret = RetStruct([a |-> 7, b |-> "B"])
    /\ ~heap[last.h].live

\* C7: zero means absent: none() is 0, is_none(a) holds exactly for a = 0,
\* into_abi never returns 0, every borrow, reclaim or accessor call through
\* handle 0 is fatal, Option::from_abi(0) is None, and address 0 never holds a
\* live allocation.
C7_ZeroIsAbsent ==
    /\ ~heap[0].live
    /\ none = 0
    /\ \A a \in Addrs : is_none(a) <=> a = 0
    /\ last.op \in {"into_abi", "option_some_into_abi"} =>
          (last.ret.n # 0 /\ ~is_none(last.ret.n) /\ heap[last.ret.n].live)
    /\ last.op = "option_none_into_abi" => (last.ret.n = 0 /\ is_none(last.ret.n))
    /\ (last.h = 0 /\ last.op \in {"from_abi", "free", "ref_from_abi", "ref_mut_from_abi",
                                   "long_ref_from_abi", "get", "set"}) =>
          last.res = "fatal"
    /\ (last.h = 0 /\ last.op = "option_from_abi") =>
          (last.res = "ok" /\ last.ret = RetNone)
    /\ (last.h # 0 /\ last.op = "option_from_abi" /\ last.res = "ok") =>
          last.ret.k = "struct"

\* an exclusive borrow through handle 0 refused while allocations exist
C7_Witness ==
    /\ last.op = "ref_mut_from_abi"
    /\ last.h = 0
    /\ last.res = "fatal"
    /\ \E a \in Addrs : heap[a].live

\* C9: the read accessor takes a shared borrow, copies the field, releases the
\* borrow and then encodes: the borrow is held during the copy and released
\* before the encoding; after the call the handle's guard and the struct are
\* what they were before; the call is fatal on handle 0 and on an exclusively
\* borrowed handle; on success it returns the encoding of the field.
C9_GetterBorrowsAndRestores ==
    /\ pc = "get_copy" => heap[cur.h].borrow = cur.pre.borrow + 1
    /\ pc = "get_release" =>
          (heap[cur.h].borrow = cur.pre.borrow + 1 /\ cur.ev = <<"acquire", "copy">>)
    /\ pc = "get_encode" =>
          (heap[cur.h] = cur.pre /\ cur.ev = <<"acquire", "copy", "release">>)
    /\ last.op = "get" =>
          /\ heap[last.h] = last.pre
          /\ anchors[last.h] = last.held
          /\ (last.h = 0 \/ (last.pre.live /\ last.pre.borrow = ExclusiveBorrowed)) =>
                last.res = "fatal"
          /\ last.res = "ok" =>
                /\ last.ev = <<"acquire", "copy", "release", "encode">>
                /\ last.ret = RetNum(field_into_abi(last.f, last.pre.val[last.f]))

\* the enum field read as 2 through a handle that has a shared anchor outstanding
C9_Witness ==
    /\ last.op = "get"
    /\ last.res = "ok"
    /\ last.f = "b"
    /\ last.ret = RetNum(2)
    /\ last.pre.borrow = 1
    /\ heap[last.h].borrow = 1

\* C10 as claimed: acquire, decode, assign, release, the value being decoded
\* only after the exclusive borrow was acquired; guard restored.
C10_DecodeAfterAcquire ==
    /\ (cur.op = "set" /\ cur.ev # <<>>) => Head(cur.ev) = "acquire"
    /\ (last.op = "set" /\ last.res = "ok") =>
          last.ev = <<"acquire", "decode", "assign", "release">>
    /\ last.op = "set" => heap[last.h].borrow = last.pre.borrow

\* C10, amended: the write accessor decodes the incoming value first, while
\* the guard is still in its pre-call state, then acquires the exclusive
\* borrow, assigns the field and releases the borrow; the guard after the call
\* equals the guard before it, and only the written field changes.
C10_SetterOrder ==
    /\ pc = "set_borrow" => (heap[cur.h] = cur.pre /\ cur.ev = <<"decode">>)
    /\ pc = "set_assign" =>
          (heap[cur.h].borrow = ExclusiveBorrowed /\ cur.ev = <<"decode", "acquire">>)
    /\ pc = "set_release" =>
          (heap[cur.h].borrow = ExclusiveBorrowed /\ cur.ev = <<"decode", "acquire", "assign">>)
    /\ last.op = "set" =>
          /\ heap[last.h].borrow = last.pre.borrow
          /\ anchors[last.h] = last.held
          /\ last.res = "ok" =>
                /\ last.ev = <<"decode", "acquire", "assign", "release">>
                /\ last.pre.borrow = Unborrowed
                /\ heap[last.h].val =
                      [last.pre.val EXCEPT ![last.f] = field_from_abi(last.f, last.arg.n).v]
          /\ last.res # "ok" => heap[last.h] = last.pre

\* the enum field of an Unborrowed handle rewritten from A to B
C10_Witness ==
    /\ last.op = "set"
    /\ last.res = "ok"
    /\ last.f = "b"
    /\ last.pre.val.b = "A"
    /\ heap[last.h].val.b = "B"
    /\ last.ev = <<"decode", "acquire", "assign", "release">>

(***************************************************************************)
(* Properties of the JsValue conversions (checked under SpecUnwrap)        *)
(***************************************************************************)
\* C8: try_from is non-destructive on failure: when the host's type check
\* answers 0 it returns Err with the very JsValue it was given, whose host
\* object is untouched, and no allocation is reclaimed or changed; when the
\* check answers a handle, that handle goes through from_abi (reclaimed when
\* Unborrowed, fatal and left allocated when borrowed) and the JsValue's
\* destructor has run exactly once, in the host.
C8_TryFromNonDestructive ==
    last.op = "try_from" =>
        /\ last.jpre.kind # "wrap" =>
              /\ last.res = "ok"
              /\ last.ret = RetJs(last.arg.n)
              /\ jsHeap[last.arg.n] = last.jpre
              /\ last.drops = 0
              /\ heap = last.hpre
        /\ last.jpre.kind = "wrap" =>
              /\ last.h = last.jpre.ptr
              /\ last.drops = 1
              /\ jsHeap[last.arg.n] = JsFree
              /\ last.res \in {"ok", "fatal"}
              /\ last.res = "ok" =>
                    /\ last.ret = RetStruct(last.hpre[last.h].val)
                    /\ heap = [last.hpre EXCEPT ![last.h] = Free]
              /\ last.res = "fatal" =>
                    (heap = last.hpre /\ last.hpre[last.h].borrow # Unborrowed)

\* a foreign object was refused while an instance of the class sits in the
\* table, and came back as it was
C8_Witness ==
    /\ last.op = "try_from"
    /\ last.jpre = JsForeign
    /\ last.ret = RetJs(last.arg.n)
    /\ jsHeap[last.arg.n] = JsForeign
    /\ \E i \in JsIdx : jsHeap[i].kind = "wrap" /\ heap[jsHeap[i].ptr].live

(***************************************************************************)
(* Setter followed by getter (checked under SpecCell)                      *)
(***************************************************************************)
\* C11: a getter called right after a successful setter on the same handle
\* returns, for the written field, the value the setter was given, and for
\* any other field the encoding of the value that field had before the
\* setter ran: get(set(h, v)) = v and no other field changes.
C11_GetAfterSet ==
    (last.op = "get" /\ last.prev.op = "set" /\ last.prev.h = last.h) =>
        /\ last.res = "ok"
        /\ last.f = last.prev.f => last.ret = RetNum(last.prev.abi)
        /\ last.f # last.prev.f =>
              last.ret = RetNum(field_into_abi(last.f, last.prev.val[last.f]))
        /\ \A g \in Fields \ {last.prev.f} : heap[last.h].val[g] = last.prev.val[g]

\* the enum field written as B (2) over A and read back as 2
C11_Witness ==
    /\ last.op = "get"
    /\ last.prev.op = "set"
    /\ last.prev.h = last.h
    /\ last.f = "b"
    /\ last.prev.f = "b"
    /\ last.prev.val.b = "A"
    /\ last.prev.abi = 2
    /\ last.ret = RetNum(2)

(***************************************************************************)
(* Properties of the lowering pass (checked under SpecLower)               *)
(***************************************************************************)
Finished == lpc \in {"ok", "err"}

\* the declarations that cannot be lowered, stated on the declaration
ExportFails(e) == e.ret \in {"&Point", "&mut Point"}
ImportFails(i) ==
    /\ i.kind = "Function"
    /\ \/ \E k \in 1..Len(i.arguments) : i.arguments[k].pat \notin {"ident", "wild"}
       \/ i.js_ret \in {"&Point", "&mut Point"}

RECURSIVE FailingExports(_, _)
FailingExports(decls, k) ==
    IF k > Len(decls) THEN <<>>
    ELSE (IF ExportFails(decls[k]) THEN <<[loop |-> "export", idx |-> k]>> ELSE <<>>)
            \o FailingExports(decls, k + 1)

RECURSIVE FailingImports(_, _)
FailingImports(decls, k) ==
    IF k > Len(decls) THEN <<>>
    ELSE (IF ImportFails(decls[k]) THEN <<[loop |-> "import", idx |-> k]>> ELSE <<>>)
            \o FailingImports(decls, k + 1)

ExpectedErrors(p) == FailingExports(p.exports, 1) \o FailingImports(p.imports, 1)

Reported == [k \in 1..Len(errors) |-> [loop |-> errors[k].loop, idx |-> errors[k].idx]]

CountKind(toks, kinds) == Cardinality({k \in 1..Len(toks) : toks[k].kind \in kinds})

\* C12: the pass visits every export and every import whatever failed before:
\* when it ends, every declaration that can be lowered has its tokens in the
\* output, and when some declaration failed the pass ends in an error whose
\* diagnostics are exactly one per failing declaration, exports first, then
\* imports, each group in declaration order.
C12_ErrorsAggregated ==
    Finished =>
        /\ lidx = Len(prog.imports) + 1
        /\ CountKind(out, {"shim"}) = Len(prog.exports) - Len(FailingExports(prog.exports, 1))
        /\ CountKind(out, {"import", "impl", "Static", "Type", "Enum"}) =
              Len(prog.imports) - Len(FailingImports(prog.imports, 1))
        /\ ExpectedErrors(prog) # <<>> => (lpc = "err" /\ Reported = ExpectedErrors(prog))
        /\ lpc = "ok" => errors = <<>>

\* a failing export followed by a good one, and a failing import followed by a
\* good one: two diagnostics, and both good declarations were lowered
C12_Witness ==
    /\ lpc = "err"
    /\ Len(prog.exports) = 2 /\ Len(prog.imports) = 2
    /\ Reported = <<[loop |-> "export", idx |-> 1], [loop |-> "import", idx |-> 1]>>
    /\ CountKind(out, {"shim"}) = 1
    /\ CountKind(out, {"import"}) = 1

RefTypes == {"&Point", "&mut Point"}
ShimKinds == {"shim", "import", "impl"}

\* C13: the step that lowers an export whose declared return type is a
\* reference, or an imported function whose host return type is a reference,
\* records one more structural error and appends no shim tokens: a failing
\* export appends nothing at all, a failing import only the descriptor that
\* DescribeImport emitted before the lowering was tried.
C13_RefReturnRejected ==
    [][/\ (lpc = "exports" /\ lidx <= Len(prog.exports)
              /\ prog.exports[lidx].ret \in RefTypes) =>
            /\ out' = out
            /\ Len(errors') = Len(errors) + 1
            /\ errors'[Len(errors')].loop = "export"
            /\ errors'[Len(errors')].idx = lidx
       /\ (lpc = "imports" /\ lidx <= Len(prog.imports)
              /\ prog.imports[lidx].kind = "Function"
              /\ prog.imports[lidx].js_ret \in RefTypes) =>
            /\ CountKind(out', ShimKinds) = CountKind(out, ShimKinds)
            /\ Len(out') <= Len(out) + 1
            /\ Len(errors') = Len(errors) + 1
            /\ errors'[Len(errors')].loop = "import"
            /\ errors'[Len(errors')].idx = lidx
      ]_vars

\* a method returning &Point and an import returning &Point were both
\* rejected; the output holds the import's descriptor and no shim
C13_Witness ==
    /\ lpc = "err"
    /\ Len(prog.exports) = 1 /\ prog.exports[1].ret = "&Point"
    /\ Len(prog.imports) = 1 /\ prog.imports[1].js_ret = "&Point"
    /\ Len(errors) = 2
    /\ errors[1].msg = "cannot return a borrowed ref with #[wasm_bindgen]"
    /\ errors[2].msg = "cannot return references in #[wasm_bindgen] imports yet"
    /\ CountKind(out, ShimKinds) = 0
    /\ CountKind(out, {"descriptor"}) = 1

(***************************************************************************)
(* Properties of the descriptor streams (checked under SpecLower)          *)
(***************************************************************************)
\* the exports and imports the pass has gone through so far
ExportsDone == IF lpc = "exports" THEN 1..(lidx - 1) ELSE 1..Len(prog.exports)
ImportsDone == IF lpc = "exports" THEN {}
               ELSE IF lpc = "imports" THEN 1..(lidx - 1) ELSE 1..Len(prog.imports)

\* the streams of the descriptor functions in the output that carry this name
StreamsOf(name) ==
    {out[k].inner : k \in {j \in 1..Len(out) : out[j].kind = "descriptor" /\ out[j].of = name}}

LastTwo(q) == <<q[Len(q) - 1], q[Len(q)]>>

\* C14: the descriptor of an async export that is not the start function
\* ends with two return descriptions: first the deferred envelope, described
\* as the host's opaque value type (JsValue), then the declared return type.
C14_AsyncDoubleDescription ==
    \A k \in ExportsDone :
        LET e == prog.exports[k] IN
        (e.async /\ ~e.start /\ e.ret \notin RefTypes) =>
            /\ StreamsOf(e.name) # {}
            /\ \A q \in StreamsOf(e.name) :
                  /\ Len(q) >= 5
                  /\ LastTwo(q) = <<[k |-> "describe", v |-> "JsValue"],
                                    [k |-> "describe", v |-> e.ret]>>

\* an async export returning u32 was lowered: .., JsValue, u32
C14_Witness ==
    /\ lpc = "ok"
    /\ Len(prog.exports) = 1
    /\ prog.exports[1].async /\ ~prog.exports[1].start
    /\ prog.exports[1].ret = "u32"
    /\ \E q \in StreamsOf("greet") :
          LastTwo(q) = <<[k |-> "describe", v |-> "JsValue"], [k |-> "describe", v |-> "u32"]>>

\* the head of a function stream: FUNCTION, the marker, the argument count,
\* one description per argument in declaration order
FunctionHead(q, argtys) ==
    /\ Len(q) >= 3 + Len(argtys)
    /\ q[1] = [k |-> "inform", v |-> "FUNCTION"]
    /\ q[2].k = "inform"
    /\ q[3] = [k |-> "inform", v |-> ToString(Len(argtys))]
    /\ \A i \in 1..Len(argtys) : q[3 + i] = [k |-> "describe", v |-> argtys[i]]

\* the type a non-async declaration returns across the boundary
ExportRet(e) == IF e.start THEN "()" ELSE e.ret
ImportRet(i) == IF i.js_ret = "None" THEN "()" ELSE i.js_ret
ImportArgTys(i) == [k \in 1..Len(i.arguments) |-> i.arguments[k].ty]

\* the non-async function declarations lowered so far, as <<name, argument
\* types, return type>>
SyncFunctions ==
    {<<prog.exports[k].name, prog.exports[k].arguments, ExportRet(prog.exports[k])>> :
        k \in {j \in ExportsDone : ~prog.exports[j].async /\ prog.exports[j].ret \notin RefTypes}}
    \cup
    {<<prog.imports[k].shim, ImportArgTys(prog.imports[k]), ImportRet(prog.imports[k])>> :
        k \in {j \in ImportsDone : prog.imports[j].kind = "Function" /\ ~prog.imports[j].async}}

\* C15 as claimed: FUNCTION, a marker, n, n argument descriptions, then one
\* description of the return type.
C15_OneReturnDescription ==
    \A f \in SyncFunctions :
        /\ StreamsOf(f[1]) # {}
        /\ \A q \in StreamsOf(f[1]) :
              /\ FunctionHead(q, f[2])
              /\ Len(q) = 3 + Len(f[2]) + 1
              /\ q[Len(q)] = [k |-> "describe", v |-> f[3]]

\* C15, amended: the stream of a non-async function declaration is FUNCTION,
\* a marker, the argument count n, n argument descriptions in declaration
\* order, then two descriptions of the return: the return type and the inner
\* return type, which are the same type for a non-async declaration.
C15_FunctionStream ==
    \A f \in SyncFunctions :
        /\ StreamsOf(f[1]) # {}
        /\ \A q \in StreamsOf(f[1]) :
              /\ FunctionHead(q, f[2])
              /\ Len(q) = 3 + Len(f[2]) + 2
              /\ LastTwo(q) = <<[k |-> "describe", v |-> f[3]], [k |-> "describe", v |-> f[3]]>>

\* a two-argument export and a one-argument import, both described
C15_Witness ==
    /\ lpc = "ok"
    /\ \E f \in SyncFunctions : Len(f[2]) = 2 /\ f[2][1] = "&mut Point" /\ f[2][2] = "u32"
                                   /\ f[3] = "Point"
                                   /\ \E q \in StreamsOf(f[1]) : Len(q) = 7

\* the argument part of an export's stream read back: one entry per argument
\* description, with whether LONGREF precedes it
RECURSIVE ParseArgs(_)
ParseArgs(body) ==
    IF body = <<>> THEN <<>>
    ELSE IF Head(body) = [k |-> "inform", v |-> "LONGREF"] /\ Len(body) >= 2
    THEN <<[longref |-> TRUE, ty |-> body[2].v]>> \o ParseArgs(SubSeq(body, 3, Len(body)))
    ELSE <<[longref |-> FALSE, ty |-> Head(body).v]>> \o ParseArgs(Tail(body))

DescribedArgs(q) == ParseArgs(SubSeq(q, 4, Len(q) - 2))

\* the shims in the output that carry this name
ShimsOf(name) ==
    {out[k] : k \in {j \in 1..Len(out) : out[j].kind = "shim" /\ out[j].of = name}}

\* the conversions of a shim that decode arguments (not the receiver)
ArgConversions(sh) ==
    SubSeq(sh.arg_conversions, Len(sh.arg_conversions) - Len(sh.converted_arguments) + 1,
           Len(sh.arg_conversions))

\* the primitive parameters of a shim without the receiver handle
PrimParams(sh) ==
    IF sh.args # <<>> /\ sh.args[1].name = "me" THEN Tail(sh.args) ELSE sh.args

\* C16: for every lowered export the descriptor and the shim agree argument
\* by argument: the descriptor has as many argument descriptions as the shim
\* signature has groups of four primitive parameters, and the i-th one is
\* prefixed with LONGREF exactly when the shim decodes the i-th argument
\* through long_ref_from_abi.
C16_DescriptorMatchesShim ==
    \A k \in ExportsDone :
        LET e == prog.exports[k] IN
        e.ret \notin RefTypes =>
            /\ ShimsOf(e.name) # {} /\ StreamsOf(e.name) # {}
            /\ \A sh \in ShimsOf(e.name), q \in StreamsOf(e.name) :
                  LET d == DescribedArgs(q)
                      c == ArgConversions(sh)
                  IN  /\ Len(PrimParams(sh)) = SlotCount * Len(d)
                      /\ Len(c) = Len(d)
                      /\ \A i \in 1..Len(d) :
                            d[i].longref <=> (c[i].via = "long_ref_from_abi")

\* an async export taking (&Point, &mut Point): LONGREF on the first only
C16_Witness ==
    /\ lpc = "ok"
    /\ Len(prog.exports) = 1
    /\ prog.exports[1].async
    /\ prog.exports[1].arguments = <<"&Point", "&mut Point">>
    /\ \E q \in StreamsOf("greet") :
          DescribedArgs(q) = <<[longref |-> TRUE, ty |-> "Point"],
                               [longref |-> FALSE, ty |-> "&mut Point"]>>
    /\ \E sh \in ShimsOf("greet") :
          /\ Len(PrimParams(sh)) = 8
          /\ ArgConversions(sh)[1].via = "long_ref_from_abi"
          /\ ArgConversions(sh)[2].via = "ref_mut_from_abi"

\* the async exports lowered so far
AsyncExportsDone ==
    {k \in ExportsDone : prog.exports[k].async /\ prog.exports[k].ret \notin RefTypes}

\* C17 as claimed: in the shim of an async export every borrow, shared or
\* exclusive, of an argument or of the receiver, is a long borrow; no ordinary
\* ref_from_abi or ref_mut_from_abi is used.
C17_AllBorrowsLong ==
    \A k \in AsyncExportsDone :
        \A sh \in ShimsOf(prog.exports[k].name) :
            \A i \in 1..Len(sh.arg_conversions) :
                sh.arg_conversions[i].via \notin {"ref_from_abi", "ref_mut_from_abi"}

\* C17, amended: in the shim of an async export every shared-reference
\* argument is decoded through the long-borrow anchor (long_ref_from_abi) and
\* never through ref_from_abi; an exclusive-reference argument is decoded
\* through ref_mut_from_abi, and the receiver of a method is borrowed through
\* ref_from_abi (&self) or ref_mut_from_abi (&mut self), as in a synchronous
\* export.
C17_SharedArgsLong ==
    \A k \in AsyncExportsDone :
        LET e == prog.exports[k] IN
        /\ ShimsOf(e.name) # {}
        /\ \A sh \in ShimsOf(e.name) :
              LET c == ArgConversions(sh)
                  r == SubSeq(sh.arg_conversions, 1, Len(sh.arg_conversions) - Len(c))
              IN  /\ Len(c) = Len(e.arguments)
                  /\ \A i \in 1..Len(c) :
                        /\ e.arguments[i] = "&Point" => c[i].via = "long_ref_from_abi"
                        /\ e.arguments[i] = "&mut Point" => c[i].via = "ref_mut_from_abi"
                        /\ e.arguments[i] \notin RefTypes => c[i].via = "from_abi"
                  /\ e.method_self = "None" => r = <<>>
                  /\ e.method_self = "RefShared" => (Len(r) = 1 /\ r[1].via = "ref_from_abi")
                  /\ e.method_self = "RefMutable" => (Len(r) = 1 /\ r[1].via = "ref_mut_from_abi")
                  /\ e.method_self = "ByValue" => (Len(r) = 1 /\ r[1].via = "from_abi")

\* an async &self method taking (&Point, &mut Point)
C17_Witness ==
    /\ lpc = "ok"
    /\ Len(prog.exports) = 1
    /\ prog.exports[1].async
    /\ prog.exports[1].method_self = "RefShared"
    /\ prog.exports[1].arguments = <<"&Point", "&mut Point">>
    /\ \E sh \in ShimsOf("greet") :
          /\ sh.arg_conversions[1].via = "ref_from_abi"
          /\ sh.arg_conversions[2].via = "long_ref_from_abi"
          /\ sh.arg_conversions[3].via = "ref_mut_from_abi"

(***************************************************************************)
(* Properties of the generated signatures (checked under SpecLower)        *)
(***************************************************************************)
\* the four parameter names of the argument called base
FourSlots(base) == <<base \o "_1", base \o "_2", base \o "_3", base \o "_4">>

ParamNames(sh) == [k \in 1..Len(sh.args) |-> sh.args[k].name]

\* the import shims in the output that carry this name
ImportShimsOf(name) ==
    {out[k] : k \in {j \in 1..Len(out) : out[j].kind \in {"import", "impl"} /\ out[j].of = name}}

\* C20: every argument is splatted into exactly 4 primitive parameters named
\* <name>_1 .. <name>_4 in slot order: the shim of an export with n arguments
\* has 4n primitive parameters, after one receiver handle `me` iff it is a
\* method, the join of each argument takes that argument's own four
\* parameters in slot order, and the extern declaration of an imported
\* function with n arguments has 4n parameters built the same way.
C20_SplatFixedWidth ==
    /\ \A k \in ExportsDone :
          LET e == prog.exports[k]
              offset == IF e.method_self = "None" THEN 0 ELSE 1
              n == Len(e.arguments)
          IN  e.ret \notin RefTypes =>
                /\ ShimsOf(e.name) # {}
                /\ \A sh \in ShimsOf(e.name) :
                      /\ Len(sh.args) = offset + 4 * n
                      /\ offset = 1 => sh.args[1] = [name |-> "me", ty |-> "u32"]
                      /\ Cardinality({j \in 1..Len(sh.args) : sh.args[j].name = "me"}) = offset
                      /\ Len(ArgConversions(sh)) = n
                      /\ \A i \in 1..n :
                            LET base == "arg" \o ToString(i - 1 + offset) IN
                            /\ SubSeq(ParamNames(sh), offset + 4 * (i - 1) + 1, offset + 4 * i)
                                  = FourSlots(base)
                            /\ ArgConversions(sh)[i].join = FourSlots(base)
    /\ \A k \in ImportsDone :
          LET f == prog.imports[k] IN
          \A sh \in ImportShimsOf(f.shim) :
              /\ Len(sh.args) = 4 * Len(f.arguments)
              /\ \A i \in 1..Len(f.arguments) :
                    LET base == IF f.arguments[i].pat = "ident"
                                THEN "a" \o ToString(i - 1)
                                ELSE "__genarg_" \o ToString(i - 1) IN
                    /\ SubSeq(ParamNames(sh), 4 * (i - 1) + 1, 4 * i) = FourSlots(base)
                    /\ sh.arg_conversions[i].join = FourSlots(base)

\* a method with two arguments: me, arg1_1 .. arg1_4, arg2_1 .. arg2_4
C20_Witness ==
    /\ lpc = "ok"
    /\ Len(prog.exports) = 1
    /\ prog.exports[1].method_self = "RefMutable"
    /\ \E sh \in ShimsOf("greet") :
          /\ Len(sh.args) = 9
          /\ ParamNames(sh)[1] = "me"
          /\ ParamNames(sh)[2] = "arg1_1"
          /\ ParamNames(sh)[9] = "arg2_4"
          /\ ArgConversions(sh)[2].join = <<"arg2_1", "arg2_2", "arg2_3", "arg2_4">>


(***************************************************************************)
(* Calls of export shims                                                   *)
(***************************************************************************)
\* the conversions of a call that borrowed a handle: those that were run
Borrowing(r) ==
    {i \in 1..Len(r.conv) :
        /\ r.conv[i].ty = "Point"
        /\ r.conv[i].via \in {"ref_from_abi", "ref_mut_from_abi", "long_ref_from_abi"}
        /\ \E k \in 1..Len(r.ev) : r.ev[k] = "decode " \o r.conv[i].bind}

\* the borrows of handle a held by anchors: those of futures in progress and
\* those an aborted call left behind
RECURSIVE CountHeld(_, _, _)
CountHeld(held, a, kind) ==
    IF held = <<>> THEN 0
    ELSE (IF Head(held).h = a /\ Head(held).kind = kind THEN 1 ELSE 0)
            + CountHeld(Tail(held), a, kind)

RECURSIVE HeldByTasks(_, _, _)
HeldByTasks(S, a, kind) ==
    IF S = {} THEN 0
    ELSE LET c == CHOOSE x \in S : TRUE IN
         CountHeld(tasks[c].held, a, kind) + HeldByTasks(S \ {c}, a, kind)

Outstanding(a, kind) ==
    (IF kind = "excl" THEN anchors[a].excl ELSE anchors[a].shared)
       + HeldByTasks(TaskIds, a, kind)

GuardAccounted(a) ==
    heap[a].borrow = IF Outstanding(a, "excl") > 0 THEN ExclusiveBorrowed
                     ELSE Outstanding(a, "shared")

\* C18 as stated: after the deferred result of an async export was dropped
\* before completion, the guard of every handle borrowed for the call is in
\* the state it had before the call.
C18_CancelRestoresPreState ==
    lastCall.st = "cancelled" =>
        \A i \in Borrowing(lastCall) :
            lastCall.post[lastCall.conv[i].h] = lastCall.pre[lastCall.conv[i].h]

\* C18: after the deferred result of an async export was dropped before
\* completion (before the body started, or at a suspension point), no borrow
\* taken for that call is outstanding: every guard counts the anchors that
\* are still held and nothing else, and the guard of a handle borrowed for
\* the call is in the state it had before the call unless another call
\* acquired or released a borrow of that handle in the meantime.
C18_CancelReleases ==
    /\ \A a \in Addrs : GuardAccounted(a)
    /\ lastCall.st = "cancelled" =>
          /\ lastCall.held = <<>>
          /\ \A i \in Borrowing(lastCall) :
                LET h == lastCall.conv[i].h IN
                h \notin lastCall.touched => lastCall.post[h] = lastCall.pre[h]

\* a future dropped at its suspension point, after it had borrowed its
\* receiver, with no other call on that handle
C18_Witness ==
    /\ lastCall.st = "cancelled"
    /\ lastCall.ev = <<"spawn", "encode", "decode me", "decode arg1", "invoke">>
    /\ lastCall.conv[1].via = "ref_from_abi"
    /\ heap[lastCall.conv[1].h].live
    /\ lastCall.touched = {}
    /\ lastCall.pre[lastCall.conv[1].h] = Unborrowed
    /\ lastCall.post[lastCall.conv[1].h] = Unborrowed

\* the decode steps of a call: the receiver, then the arguments as declared
ExpectedDecodes(e) ==
    LET offset == IF e.method_self # "None" THEN 1 ELSE 0 IN
    (IF offset = 1 THEN <<"decode me">> ELSE <<>>)
       \o [i \in 1..Len(e.arguments) |-> "decode arg" \o ToString(i - 1 + offset)]

Wraps(e) == IF e.async \/ e.start THEN <<"wrap">> ELSE <<>>

Rank(step) ==
    CASE step = "invoke" -> 2
      [] step \in {"wrap", "spawn"} -> 3
      [] step = "encode" -> 4
      [] OTHER -> 1

IsPrefix(p, q) == Len(p) <= Len(q) /\ SubSeq(q, 1, Len(p)) = p

\* C19 as stated: in every call of an export shim the steps are the decode
\* of the receiver, the decodes of the arguments as declared, the invocation,
\* the async / start wrapping, the encoding of the return value, in this order.
C19_StepsInOrder ==
    lastCall.st \in {"returned", "done"} =>
        /\ \A i, j \in 1..Len(lastCall.ev) :
               i < j => Rank(lastCall.ev[i]) <= Rank(lastCall.ev[j])
        /\ SelectSeq(lastCall.ev, LAMBDA s : Rank(s) = 1) = ExpectedDecodes(lastCall.export)

\* C19: in every call of a synchronous export shim the steps are the decode
\* of the receiver, the decodes of the arguments as declared, the invocation,
\* the start wrapping, the encoding of the return value, in this order.  The
\* shim of an async export wraps its body in the deferred result, encodes and
\* returns it, and the body then runs the same decodes, the invocation and the
\* wrapping of the outcome in this order.  The implementation is never
\* invoked before all arguments have been decoded.
C19_ShimOrder ==
    /\ lastCall.st = "returned" =>
          lastCall.ev = ExpectedDecodes(lastCall.export) \o <<"invoke">>
                           \o Wraps(lastCall.export) \o <<"encode">>
    /\ lastCall.st = "done" =>
          lastCall.ev = <<"spawn", "encode">> \o ExpectedDecodes(lastCall.export)
                           \o <<"invoke", "wrap">>
    /\ \A r \in {lastCall} \cup {tasks[c] : c \in TaskIds} :
          /\ r.async =>
                IsPrefix(r.ev, <<"spawn", "encode">> \o ExpectedDecodes(r.export)
                                  \o <<"invoke", "wrap">>)
          /\ ~r.async =>
                IsPrefix(r.ev, ExpectedDecodes(r.export) \o <<"invoke">>
                                  \o Wraps(r.export) \o <<"encode">>)

\* an async method with an argument ran to its end after its shim had
\* returned the deferred result
C19_Witness ==
    /\ lastCall.st = "done"
    /\ lastCall.export.method_self = "RefShared"
    /\ lastCall.ev = <<"spawn", "encode", "decode me", "decode arg1", "invoke", "wrap">>


(***************************************************************************)
(* The metadata static                                                     *)
(***************************************************************************)
\* a little-endian u32 read back from four bytes
from_le_bytes(b) == b[1] + 256 * b[2] + 65536 * b[3] + 16777216 * b[4]

Blobs == {k \in 1..Len(out) : out[k].kind = "blob"}

IsHeader(h) ==
    \E sv \in SchemaVersions, tv \in ToolVersions :
        h = PrefixOpen \o sv \o PrefixMid \o tv \o PrefixClose

\* C21: the metadata blob is 4 bytes holding the little-endian u32 length L
\* of the header, then the L bytes of the header
\* {"schema_version":"<ver>","version":"<tool_ver>"}, then the encoded
\* declaration list; the declared static length is 4 + L + the length of the
\* body, and splitting the blob at 4 and 4 + L gives back header and body.
C21_BlobLayout ==
    \A k \in Blobs :
        LET b == out[k].bytes
            L == from_le_bytes(SubSeq(b, 1, 4))
        IN  /\ Len(b) >= 4 + L
            /\ \A i \in 1..Len(b) : b[i] \in 0..255
            /\ IsHeader(SubSeq(b, 5, 4 + L))
            /\ SubSeq(b, 5, 4 + L) = out[k].prefix_json
            /\ SubSeq(b, 5 + L, Len(b)) = out[k].custom_section
            /\ out[k].length = 4 + L + Len(out[k].custom_section)

\* a blob whose header is longer than 255 bytes, with a body after it
C21_Witness ==
    /\ lpc = "ok"
    /\ \E k \in Blobs :
          /\ Len(out[k].prefix_json) > 255
          /\ SubSeq(out[k].bytes, 1, 4) = <<Len(out[k].prefix_json) - 256, 1, 0, 0>>
          /\ out[k].custom_section = <<1, 0, 255>>


(***************************************************************************)
(* Calls of imported functions                                             *)
(***************************************************************************)
HostThrew == icall.host.k \in {"throw", "reject"}
HostValue == IF icall.js_ret = "None" THEN 0 ELSE icall.host.v

\* C22: an imported function marked catch returns Ok(value) when the host
\* call completes normally and a recoverable Err when the host throws,
\* without aborting the call path; an imported function not marked catch
\* treats the same host exception as a fatal abort.
C22_CatchOrAbort ==
    icall.st = "ended" =>
        /\ (icall.catch /\ ~HostThrew) => icall.res = Ok(HostValue)
        /\ (icall.catch /\ HostThrew) => icall.res = Err(icall.host.x)
        /\ (~icall.catch /\ HostThrew) => icall.res = Abort

Count(ev, step) == Len(SelectSeq(ev, LAMBDA x : x = step))

\* C26: in a synchronous catch import the pending exception is looked for
\* after the host call has returned and before the return value is decoded:
\* when an exception is pending the Err is returned and the return value is
\* never decoded; when none is pending the return value (of a function that
\* has one) is decoded exactly once and wrapped in Ok.
C26_CheckBeforeDecode ==
    (icall.st = "ended" /\ icall.catch /\ ~icall.async) =>
        LET pending == icall.host.k = "throw" \/ icall.pending # "none" IN
        /\ SubSeq(icall.ev, 1, 2) = <<"call", "take_last_exception">>
        /\ Count(icall.ev, "take_last_exception") = 1
        /\ pending => /\ icall.res.k = "Err"
                       /\ Count(icall.ev, "decode") = 0
        /\ ~pending => /\ icall.res = Ok(HostValue)
                        /\ Count(icall.ev, "decode") = (IF icall.js_ret = "None" THEN 0 ELSE 1)
                        /\ icall.ev[Len(icall.ev)] =
                              (IF icall.js_ret = "None" THEN "take_last_exception" ELSE "decode")

\* the host threw through a synchronous catch import that returns a value
C26_Witness ==
    /\ icall.st = "ended" /\ icall.catch /\ ~icall.async
    /\ icall.js_ret = "u32"
    /\ icall.host.k = "throw"
    /\ icall.res = Err(icall.host.x)
    /\ icall.ev = <<"call", "take_last_exception">>
    /\ exn = "none"


\* the conversions of a call that take a shared borrow for the call only
SharedRefs(r) ==
    {i \in 1..Len(r.conv) : r.conv[i].ty = "Point" /\ r.conv[i].via = "ref_from_abi"}

\* C23: passing a value to a synchronous export by shared reference leaves
\* ownership with the caller: when the call has returned the referent is
\* still live and its guard is in the state it had before the call, so the
\* value can be passed again.
C23_SharedRefKeepsOwnership ==
    (lastCall.st = "returned" /\ ~lastCall.async) =>
        \A i \in SharedRefs(lastCall) :
            LET h == lastCall.conv[i].h IN
            /\ heap[h].live
            /\ heap[h].val = ShimVal
            /\ heap[h].borrow = lastCall.pre[h]
            /\ lastCall.post[h] = lastCall.pre[h]

\* the second synchronous call came back: the handle was passed by shared
\* reference, as receiver and as argument, and its guard is unborrowed as
\* it was before the call
C23_Witness ==
    /\ lastCall.st = "returned" /\ ~lastCall.async
    /\ calls = 2
    /\ \A c \in TaskIds : tasks[c].st = "none"
    /\ lastCall.ev = <<"decode me", "decode arg1", "decode arg2", "invoke", "encode">>
    /\ lastCall.conv[2].via = "ref_from_abi"
    /\ lastCall.pre[lastCall.conv[2].h] = Unborrowed
    /\ heap[lastCall.conv[2].h].borrow = Unborrowed


(***************************************************************************)
(* Exported enums                                                          *)
(***************************************************************************)
IsDiscriminant(js) == \E v \in Variants : edecl.disc[v] = js

\* C24: decoding an exported enum is fatal for every value that is not the
\* discriminant of a declared variant, the hole of the optional encoding
\* included; it never gives an enum value outside the declared variants.
C24_InvalidEnumFatal ==
    elast.op = "from_abi" =>
        /\ ~IsDiscriminant(elast.arg.n) => elast.res = EnumFatal
        /\ elast.arg.n = edecl.hole => elast.res = EnumFatal
        /\ elast.res.ok => /\ elast.res.v \in Variants
                            /\ edecl.disc[elast.res.v] = elast.arg.n

\* the hole of an enum whose discriminants leave a gap was decoded
C24_Witness ==
    /\ elast.op = "from_abi"
    /\ elast.arg.n = edecl.hole
    /\ elast.res = EnumFatal
    /\ \E v \in Variants : edecl.disc[v] > edecl.hole

\* C25: for every declared variant v, from_abi(into_abi(v)) = v; and for the
\* optional encoding is_none(none()) holds while is_none(into_abi(v)) is
\* false for every variant v.
C25_EnumRoundTrip ==
    /\ (elast.op = "from_abi" /\ elast.prev.op = "into_abi" /\ elast.arg = elast.prev.res)
          => elast.res = elast.prev.arg
    /\ (elast.op = "is_none" /\ elast.prev.op = "none" /\ elast.arg = elast.prev.res)
          => elast.res = EnumFlag(TRUE)
    /\ (elast.op = "is_none" /\ elast.prev.op = "into_abi" /\ elast.arg = elast.prev.res)
          => elast.res = EnumFlag(FALSE)

\* a variant with a discriminant other than 0 went out and came back, in an
\* enum whose hole is not 0
C25_Witness ==
    /\ elast.op = "from_abi" /\ elast.prev.op = "into_abi"
    /\ elast.arg = elast.prev.res
    /\ elast.arg.n > 0
    /\ edecl.hole > 0
    /\ elast.res = elast.prev.arg


(***************************************************************************)
(* Whole-program lowering: the statics at the end                          *)
(***************************************************************************)
Statics(o) == {k \in 1..Len(o) : o[k].kind \in {"blob", "included_files"}}

SomeDeclFails ==
    \/ \E k \in 1..Len(prog.exports) : ~export_try_to_tokens(prog.exports[k]).ok
    \/ \E k \in 1..Len(prog.imports) : ~import_try_to_tokens(prog.imports[k]).ok

\* C27: if any export or import of the program fails to lower, the run
\* returns an error and neither the metadata blob nor the included-files
\* static is appended; the blob is appended exactly once, after all
\* declarations, and only when the whole run succeeds.
C27_NoBlobOnFailure ==
    /\ lpc # "ok" => Statics(out) = {}
    /\ (lpc \in {"ok", "err"} /\ SomeDeclFails) => lpc = "err"
    /\ lpc = "ok" =>
          /\ ~SomeDeclFails
          /\ Len(out) >= 2
          /\ Statics(out) = {Len(out) - 1, Len(out)}
          /\ out[Len(out) - 1].kind = "included_files"
          /\ out[Len(out)].kind = "blob"

\* a run that lowered one declaration and failed on another has ended
C27_Witness ==
    /\ lpc = "err"
    /\ SomeDeclFails
    /\ out # <<>>
    /\ Statics(out) = {}


(***************************************************************************)
(* The descriptor registry over the life of a process                      *)
(***************************************************************************)
\* the names the declarations of the current program can ask for
RunNames ==
    {DescribeImport(prog.imports[k])[1].ident : k \in 1..Len(prog.imports)}
       \cup UNION {{export_try_to_tokens(prog.exports[k]).desc[j].ident :
                       j \in 1..Len(export_try_to_tokens(prog.exports[k]).desc)} :
                    k \in 1..Len(prog.exports)}

\* C28: the registry only grows: no step removes a name; a name inserted
\* during one lowering run is registered in every later run of the process,
\* also when the run that inserted it ended in an error; and a step adds
\* only names the current program asks for, leaving all others as they were.
C28_RegistryGrows ==
    [][/\ DESCRIPTORS_EMITTED \subseteq DESCRIPTORS_EMITTED'
       /\ (DESCRIPTORS_EMITTED' \ DESCRIPTORS_EMITTED) \subseteq RunNames
       /\ \A k \in 1..Len(runlog') : runlog'[k].reg \subseteq DESCRIPTORS_EMITTED']_vars

\* a later run has ended, and the registry still holds a name that only the
\* earlier run, which ended in an error, can have inserted
C28_Witness ==
    /\ Len(runlog) > 0
    /\ runlog[1].res = "err"
    /\ lpc = "ok"
    /\ \E n \in runlog[1].reg : n \notin RunNames /\ n \in DESCRIPTORS_EMITTED


(***************************************************************************)
(* Progress of descriptor emission (checked under SpecDescFair)            *)
(***************************************************************************)
LockOnlyAroundInsert(p) ==
    /\ (mutex = p) => (dpc[p] \in {"probe", "write", "unlock"})
    /\ (dpc[p] \in {"branch", "emit", "idle", "lock"}) => (mutex # p)

\* C29: the registry lock is held only during the check-and-insert step and
\* is released before the body is generated; no state is reachable in which
\* an invocation is under way and none can step; and every invocation that
\* has been called eventually returns.
C29_EmissionCompletes ==
    /\ [](\A p \in Procs : LockOnlyAroundInsert(p))
    /\ []((\E p \in Procs : dpc[p] # "idle") => \E p \in Procs : ENABLED DescStep(p))
    /\ \A p \in Procs : (dpc[p] # "idle") ~> (dpc[p] = "idle")

\* one invocation generates its body while another holds the lock, and a
\* third party is not needed for either to go on
C29_Witness ==
    \E p, q \in Procs :
        /\ p # q
        /\ dpc[p] = "emit"
        /\ mutex = q
        /\ dpc[q] \in {"probe", "write", "unlock"}


(***************************************************************************)
(* Async exports: what the shim does and what the body does                *)
(***************************************************************************)
PointHandles(r) == {r.conv[i].h : i \in {k \in 1..Len(r.conv) : r.conv[k].ty = "Point"}}

Decoded(r) == \E k \in 1..Len(r.ev) : r.ev[k] \notin {"spawn", "encode", "invoke", "wrap"}

\* C30: the shim of an async export converts nothing: the step in which it
\* returns the deferred result leaves every cell and every guard as it was,
\* and as long as the body has not run, the call has reclaimed no handle and
\* holds no borrow, so the guards of its handles are as they were at the call
\* (unless another call changed them).
C30_ConversionsDeferred ==
    [][\A c \in TaskIds :
          /\ (tasks[c].st = "none" /\ tasks'[c].st = "scheduled") =>
                /\ heap' = heap
                /\ anchors' = anchors
          /\ tasks'[c].st = "scheduled" =>
                /\ tasks'[c].held = <<>>
                /\ ~Decoded(tasks'[c])
                /\ \A a \in PointHandles(tasks'[c]) \ tasks'[c].touched :
                      heap'[a].borrow = tasks'[c].pre[a]
          /\ (tasks[c].st = "scheduled" /\ tasks'[c].st = "scheduled") =>
                \A a \in PointHandles(tasks[c]) :
                    (~heap'[a].live /\ heap[a].live) =>
                        \/ \E d \in TaskIds \ {c} : tasks[d].st = "scheduled" /\ tasks'[d] # tasks[d]
                        \/ lastCall' # NoTask]_vars

\* the shim of an async export with a by-value receiver has returned and the
\* body has not run: the instance is still there, and not borrowed
C30_Witness ==
    \E c \in TaskIds :
        /\ tasks[c].st = "scheduled"
        /\ \E i \in 1..Len(tasks[c].conv) :
              /\ tasks[c].conv[i].via = "from_abi"
              /\ tasks[c].conv[i].ty = "Point"
              /\ heap[tasks[c].conv[i].h].live
              /\ heap[tasks[c].conv[i].h].borrow = Unborrowed

=============================================================================
